---- MODULE Spec2Model ----
(***************************************************************************)
(* A model of the event-derived metrics engine of AOE2_STATPARSER          *)
(* (src/aoe2stat): cost tables, payload extraction, the windowed metrics   *)
(* of metrics.py, the postgame totals extraction and the scan of the sync  *)
(* records.                                                                *)
(*                                                                         *)
(* Python values are modelled as follows.                                  *)
(*   str    a sequence of one-character strings                            *)
(*   None   for a ResourceCost: the empty tuple NoCost                     *)
(*   float  an integer when every operand is integral; the quotient        *)
(*          counts * 60 / window_sec as the pair <<numerator, denominator>>*)
(***************************************************************************)
EXTENDS Integers, Sequences, FiniteSets, TLC

VARIABLES match, postgame, stream, scan, call, ret

vars == <<match, postgame, stream, scan, call, ret>>

(***************************************************************************)
(* Python str operations                                                   *)
(***************************************************************************)
SetMin(S) == CHOOSE x \in S : \A y \in S : x <= y

SetMax(S) == CHOOSE x \in S : \A y \in S : y <= x

ascii_uppercase == <<"A","B","C","D","E","F","G","H","I","J","K","L","M","N","O","P","Q","R","S","T","U","V","W","X","Y","Z">>

ascii_lowercase == <<"a","b","c","d","e","f","g","h","i","j","k","l","m","n","o","p","q","r","s","t","u","v","w","x","y","z">>

digits == {"0","1","2","3","4","5","6","7","8","9"}

whitespace == {" ", "\t", "\n"}

char_lower(c) ==
  IF \E i \in 1..Len(ascii_uppercase) : ascii_uppercase[i] = c
  THEN ascii_lowercase[CHOOSE i \in 1..Len(ascii_uppercase) : ascii_uppercase[i] = c]
  ELSE c

char_upper(c) ==
  IF \E i \in 1..Len(ascii_lowercase) : ascii_lowercase[i] = c
  THEN ascii_uppercase[CHOOSE i \in 1..Len(ascii_lowercase) : ascii_lowercase[i] = c]
  ELSE c

\* str.lower()
str_lower(s) == [i \in 1..Len(s) |-> char_lower(s[i])]

\* str.upper()
str_upper(s) == [i \in 1..Len(s) |-> char_upper(s[i])]

\* str.strip()
str_strip(s) ==
  LET keep == {i \in 1..Len(s) : s[i] \notin whitespace}
  IN IF keep = {} THEN <<>> ELSE SubSeq(s, SetMin(keep), SetMax(keep))

\* k in n, for two str
str_in(k, n) ==
  \E i \in 0..(Len(n) - Len(k)) : SubSeq(n, i + 1, i + Len(k)) = k

\* str.startswith
str_startswith(s, prefix) ==
  Len(prefix) <= Len(s) /\ SubSeq(s, 1, Len(prefix)) = prefix

\* \w of the re module, on ASCII
is_word_char(c) ==
  \/ c \in digits
  \/ c = "_"
  \/ \E i \in 1..Len(ascii_lowercase) : ascii_lowercase[i] = c \/ ascii_uppercase[i] = c

\* \b of the re module at offset i of n (between n[i] and n[i+1])
word_boundary(n, i) ==
  (i >= 1 /\ is_word_char(n[i])) # (i < Len(n) /\ is_word_char(n[i + 1]))

\* re.search(rf"\b{re.escape(k)}\b", n)
re_search_word(k, n) ==
  \E i \in 0..(Len(n) - Len(k)) :
     /\ SubSeq(n, i + 1, i + Len(k)) = k
     /\ word_boundary(n, i)
     /\ word_boundary(n, i + Len(k))

(***************************************************************************)
(* costs.py: the cost tables (dicts, in insertion order) and _lookup       *)
(***************************************************************************)
NoCost == <<>>

UNIT_COSTS ==
  << <<<<"v","i","l","l","a","g","e","r">>, <<50,0,0,0>>>>,
     <<<<"m","i","l","i","t","i","a">>, <<60,0,20,0>>>>,
     <<<<"m","a","n","-","a","t","-","a","r","m","s">>, <<60,0,20,0>>>>,
     <<<<"s","p","e","a","r","m","a","n">>, <<35,25,0,0>>>>,
     <<<<"p","i","k","e","m","a","n">>, <<35,25,0,0>>>>,
     <<<<"h","a","l","b","e","r","d","i","e","r">>, <<35,25,0,0>>>>,
     <<<<"a","r","c","h","e","r">>, <<0,25,45,0>>>>,
     <<<<"c","r","o","s","s","b","o","w","m","a","n">>, <<0,25,45,0>>>>,
     <<<<"s","k","i","r","m","i","s","h","e","r">>, <<25,35,0,0>>>>,
     <<<<"e","l","i","t","e"," ","s","k","i","r","m","i","s","h","e","r">>, <<25,35,0,0>>>>,
     <<<<"h","a","n","d"," ","c","a","n","n","o","n","e","e","r">>, <<45,0,50,0>>>>,
     <<<<"c","a","v","a","l","r","y"," ","a","r","c","h","e","r">>, <<0,40,60,0>>>>,
     <<<<"s","c","o","u","t">>, <<80,0,0,0>>>>,
     <<<<"s","c","o","u","t"," ","c","a","v","a","l","r","y">>, <<80,0,0,0>>>>,
     <<<<"l","i","g","h","t"," ","c","a","v","a","l","r","y">>, <<80,0,0,0>>>>,
     <<<<"h","u","s","s","a","r">>, <<80,0,0,0>>>>,
     <<<<"k","n","i","g","h","t">>, <<60,0,75,0>>>>,
     <<<<"c","a","v","a","l","i","e","r">>, <<60,0,75,0>>>>,
     <<<<"p","a","l","a","d","i","n">>, <<60,0,75,0>>>>,
     <<<<"c","a","m","e","l">>, <<55,0,60,0>>>>,
     <<<<"c","a","m","e","l"," ","r","i","d","e","r">>, <<55,0,60,0>>>>,
     <<<<"e","a","g","l","e">>, <<20,0,50,0>>>>,
     <<<<"e","a","g","l","e"," ","s","c","o","u","t">>, <<20,0,50,0>>>>,
     <<<<"e","a","g","l","e"," ","w","a","r","r","i","o","r">>, <<20,0,50,0>>>>,
     <<<<"b","a","t","t","e","r","i","n","g"," ","r","a","m">>, <<0,160,75,0>>>>,
     <<<<"m","a","n","g","o","n","e","l">>, <<0,160,135,0>>>>,
     <<<<"o","n","a","g","e","r">>, <<0,160,135,0>>>>,
     <<<<"s","c","o","r","p","i","o","n">>, <<0,75,75,0>>>>,
     <<<<"s","i","e","g","e"," ","r","a","m">>, <<0,0,0,0>>>> >>

BUILDING_COSTS ==
  << <<<<"h","o","u","s","e">>, <<0,25,0,0>>>>,
     <<<<"l","u","m","b","e","r"," ","c","a","m","p">>, <<0,100,0,0>>>>,
     <<<<"m","i","l","l">>, <<0,100,0,0>>>>,
     <<<<"m","i","n","i","n","g"," ","c","a","m","p">>, <<0,100,0,0>>>>,
     <<<<"b","a","r","r","a","c","k","s">>, <<0,175,0,0>>>>,
     <<<<"a","r","c","h","e","r","y"," ","r","a","n","g","e">>, <<0,175,0,0>>>>,
     <<<<"s","t","a","b","l","e">>, <<0,175,0,0>>>>,
     <<<<"b","l","a","c","k","s","m","i","t","h">>, <<0,150,0,0>>>>,
     <<<<"m","a","r","k","e","t">>, <<0,175,0,0>>>>,
     <<<<"m","o","n","a","s","t","e","r","y">>, <<0,175,0,0>>>>,
     <<<<"s","i","e","g","e"," ","w","o","r","k","s","h","o","p">>, <<0,200,0,0>>>>,
     <<<<"u","n","i","v","e","r","s","i","t","y">>, <<0,200,0,0>>>>,
     <<<<"t","o","w","n"," ","c","e","n","t","e","r">>, <<0,275,0,100>>>>,
     <<<<"w","a","t","c","h"," ","t","o","w","e","r">>, <<0,25,0,125>>>>,
     <<<<"g","u","a","r","d"," ","t","o","w","e","r">>, <<0,25,0,125>>>>,
     <<<<"k","e","e","p">>, <<0,25,0,125>>>>,
     <<<<"c","a","s","t","l","e">>, <<0,0,0,650>>>> >>

TECH_COSTS ==
  << <<<<"l","o","o","m">>, <<0,0,50,0>>>>,
     <<<<"d","o","u","b","l","e","-","b","i","t"," ","a","x","e">>, <<0,100,0,0>>>>,
     <<<<"b","o","w"," ","s","a","w">>, <<100,150,0,0>>>>,
     <<<<"t","w","o","-","m","a","n"," ","s","a","w">>, <<300,300,0,0>>>>,
     <<<<"h","o","r","s","e"," ","c","o","l","l","a","r">>, <<75,75,0,0>>>>,
     <<<<"h","e","a","v","y"," ","p","l","o","w">>, <<125,125,0,0>>>>,
     <<<<"c","r","o","p"," ","r","o","t","a","t","i","o","n">>, <<250,250,0,0>>>>,
     <<<<"w","h","e","e","l","b","a","r","r","o","w">>, <<175,50,0,0>>>>,
     <<<<"h","a","n","d"," ","c","a","r","t">>, <<300,200,0,0>>>>,
     <<<<"g","o","l","d"," ","m","i","n","i","n","g">>, <<100,75,0,0>>>>,
     <<<<"g","o","l","d"," ","s","h","a","f","t"," ","m","i","n","i","n","g">>, <<200,150,0,0>>>>,
     <<<<"s","t","o","n","e"," ","m","i","n","i","n","g">>, <<100,75,0,0>>>>,
     <<<<"s","t","o","n","e"," ","s","h","a","f","t"," ","m","i","n","i","n","g">>, <<200,150,0,0>>>>,
     <<<<"t","o","w","n"," ","w","a","t","c","h">>, <<75,0,0,0>>>>,
     <<<<"t","o","w","n"," ","p","a","t","r","o","l">>, <<300,0,100,0>>>>,
     <<<<"f","l","e","t","c","h","i","n","g">>, <<50,0,100,0>>>>,
     <<<<"b","o","d","k","i","n"," ","a","r","r","o","w">>, <<200,0,100,0>>>>,
     <<<<"b","r","a","c","e","r">>, <<300,0,200,0>>>>,
     <<<<"f","o","r","g","i","n","g">>, <<150,0,0,0>>>>,
     <<<<"i","r","o","n"," ","c","a","s","t","i","n","g">>, <<220,0,120,0>>>>,
     <<<<"b","l","a","s","t"," ","f","u","r","n","a","c","e">>, <<275,0,225,0>>>>,
     <<<<"s","c","a","l","e"," ","m","a","i","l"," ","a","r","m","o","r">>, <<100,0,0,0>>>>,
     <<<<"c","h","a","i","n"," ","m","a","i","l"," ","a","r","m","o","r">>, <<200,0,0,0>>>>,
     <<<<"p","l","a","t","e"," ","m","a","i","l"," ","a","r","m","o","r">>, <<300,0,0,0>>>>,
     <<<<"s","c","a","l","e"," ","b","a","r","d","i","n","g"," ","a","r","m","o","r">>, <<150,0,0,0>>>>,
     <<<<"c","h","a","i","n"," ","b","a","r","d","i","n","g"," ","a","r","m","o","r">>, <<250,0,0,0>>>>,
     <<<<"p","l","a","t","e"," ","b","a","r","d","i","n","g"," ","a","r","m","o","r">>, <<350,0,0,0>>>>,
     <<<<"l","e","a","t","h","e","r"," ","a","r","c","h","e","r"," ","a","r","m","o","r">>, <<100,0,0,0>>>>,
     <<<<"c","h","a","i","n"," ","a","r","c","h","e","r"," ","a","r","m","o","r">>, <<150,0,0,0>>>>,
     <<<<"r","i","n","g"," ","a","r","c","h","e","r"," ","a","r","m","o","r">>, <<250,0,0,0>>>> >>

\* _norm
norm(name) == str_lower(str_strip(name))

\* _lookup, with the substring rule broken: only an equal key matches
lookup_exact_only(name, table) ==
  LET n == norm(name)
      exact == {i \in 1..Len(table) : table[i][1] = n}
  IN IF exact # {} THEN table[SetMin(exact)][2] ELSE NoCost

\* _lookup: exact key, then the first key (in table order) that contains the
\* name or is contained in it, then the first key found as a whole word
lookup(name, table) ==
  LET n == norm(name)
      exact == {i \in 1..Len(table) : table[i][1] = n}
      loose == {i \in 1..Len(table) :
                  \/ n = table[i][1]
                  \/ str_in(table[i][1], n)
                  \/ str_in(n, table[i][1])}
      word  == {i \in 1..Len(table) : re_search_word(table[i][1], n)}
  IN IF exact # {} THEN table[SetMin(exact)][2]
     ELSE IF loose # {} THEN table[SetMin(loose)][2]
     ELSE IF word # {} THEN table[SetMin(word)][2]
     ELSE NoCost

unit_cost(name) == lookup(name, UNIT_COSTS)

building_cost(name) == lookup(name, BUILDING_COSTS)

tech_cost(name) == lookup(name, TECH_COSTS)

(***************************************************************************)
(* Loosely typed Python values (payloads, postgame data): a value carries  *)
(* its type tag.  A dict is the sequence of its <<key, value>> items in    *)
(* insertion order; an object is the same for its attributes.              *)
(***************************************************************************)
PyNone == [tag |-> "none", v |-> 0]

PyStr(s) == [tag |-> "str", v |-> s]

PyInt(n) == [tag |-> "int", v |-> n]

PyDict(items) == [tag |-> "dict", v |-> items]

PyList(elems) == [tag |-> "list", v |-> elems]

PyObj(attrs) == [tag |-> "obj", v |-> attrs]

\* bool(v)
truthy(v) ==
  CASE v.tag = "none" -> FALSE
    [] v.tag = "int"  -> v.v # 0
    [] OTHER          -> Len(v.v) > 0

\* a or b
py_or(a, b) == IF truthy(a) THEN a ELSE b

\* d.get(k) for the items d of a dict and a str key k
dict_get(d, k) ==
  LET hit == {i \in 1..Len(d) : d[i][1] = PyStr(k)}
  IN IF hit = {} THEN PyNone ELSE d[SetMin(hit)][2]

\* getattr(obj, name, None)
py_getattr(obj, name) ==
  IF obj.tag = "obj" THEN dict_get(obj.v, name) ELSE PyNone

RECURSIVE nat_str(_)
\* str(n) for an int n >= 0
nat_str(n) ==
  LET d == <<"0","1","2","3","4","5","6","7","8","9">>
  IN IF n < 10 THEN <<d[n + 1]>> ELSE nat_str(n \div 10) \o <<d[(n % 10) + 1]>>

s_none == <<"N","o","n","e">>

s_repr == <<"<","o","b","j","e","c","t",">">>

\* str(n) for an int n
int_str(n) == IF n < 0 THEN <<"-">> \o nat_str(-n) ELSE nat_str(n)

RECURSIVE py_repr(_)
RECURSIVE repr_items(_, _, _)
\* The reprs of the elements i.. of a list, or of the items i.. of a dict
\* as key: value, joined by ', '
repr_items(elems, i, is_dict) ==
  IF i > Len(elems) THEN <<>>
  ELSE (IF i > 1 THEN <<",", " ">> ELSE <<>>)
       \o (IF is_dict
           THEN py_repr(elems[i][1]) \o <<":", " ">> \o py_repr(elems[i][2])
           ELSE py_repr(elems[i]))
       \o repr_items(elems, i + 1, is_dict)

\* repr(v): a str in quotes (the strs of the model hold no quote), a dict
\* and a list with the reprs of what they hold; the repr of an object
\* (its class and address) is not modelled
py_repr(v) ==
  CASE v.tag = "str"  -> <<"'">> \o v.v \o <<"'">>
    [] v.tag = "int"  -> int_str(v.v)
    [] v.tag = "none" -> s_none
    [] v.tag = "dict" -> <<"{">> \o repr_items(v.v, 1, TRUE) \o <<"}">>
    [] v.tag = "list" -> <<"[">> \o repr_items(v.v, 1, FALSE) \o <<"]">>
    [] OTHER          -> s_repr

\* str(v): the str itself, and the repr of anything else
py_str(v) == IF v.tag = "str" THEN v.v ELSE py_repr(v)

\* int() raised exc
NotInt(exc) == [ok |-> FALSE, val |-> 0, exc |-> exc]

IsInt(n) == [ok |-> TRUE, val |-> n, exc |-> "none"]

RECURSIVE digits_val(_)
digits_val(s) ==
  IF s = <<>> THEN 0
  ELSE 10 * digits_val(SubSeq(s, 1, Len(s) - 1))
       + (CHOOSE n \in 0..9 : nat_str(n) = <<s[Len(s)]>>)

\* int(v): the int, or what Python raises
py_int(v) ==
  CASE v.tag = "int" -> IsInt(v.v)
    [] v.tag = "str" ->
         LET s    == str_strip(v.v)
             neg  == s # <<>> /\ s[1] = "-"
             body == IF s # <<>> /\ s[1] \in {"-", "+"} THEN Tail(s) ELSE s
         IN IF body # <<>> /\ \A i \in 1..Len(body) : body[i] \in digits
            THEN IsInt(IF neg THEN -digits_val(body) ELSE digits_val(body))
            ELSE NotInt("ValueError")
    [] OTHER -> NotInt("TypeError")

(***************************************************************************)
(* patterns.py: a compiled pattern r'a|b', re.IGNORECASE, whose            *)
(* alternatives are literals, is the set of its alternatives               *)
(***************************************************************************)
pat_villager == { <<"v","i","l","l","a","g","e","r">>, <<"a","l","d","e","a","n">> }

pat_knight == { <<"k","n","i","g","h","t">>, <<"c","a","b","a","l","l","e","r","o">> }

\* pattern.search(s)
re_search(pattern, s) == \E alt \in pattern : str_in(alt, str_lower(s))

(***************************************************************************)
(* core.py: payload extraction                                             *)
(***************************************************************************)
k_unit == <<"u","n","i","t">>

k_name == <<"n","a","m","e">>

k_unit_name == <<"u","n","i","t","_","n","a","m","e">>

k_object_name == <<"o","b","j","e","c","t","_","n","a","m","e">>

k_item == <<"i","t","e","m">>

k_count == <<"c","o","u","n","t">>

k_amount == <<"a","m","o","u","n","t">>

k_quantity == <<"q","u","a","n","t","i","t","y">>

k_num == <<"n","u","m">>

k_n == <<"n">>

payload_unit_name(payload) ==
  LET unit_obj == py_or(dict_get(payload, k_unit), PyDict(<<>>))
  IN py_or(py_getattr(unit_obj, k_name),
     py_or(py_getattr(unit_obj, k_unit_name),
     py_or(IF unit_obj.tag = "dict" THEN dict_get(unit_obj.v, k_name) ELSE PyNone,
     py_or(dict_get(payload, k_unit_name),
     py_or(dict_get(payload, k_object_name),
           dict_get(payload, k_item))))))

RECURSIVE payload_strings(_, _, _)
\* _payload_strings: the set of the str values it yields
payload_strings(obj, depth, max_depth) ==
  IF depth > max_depth THEN {}
  ELSE IF obj.tag = "dict"
  THEN UNION { payload_strings(obj.v[i][2], depth + 1, max_depth) : i \in 1..Len(obj.v) }
  ELSE LET name == py_or(py_getattr(obj, k_name), py_getattr(obj, k_unit_name))
       IN (IF name.tag = "str" THEN {name.v} ELSE {})
            \cup (IF obj.tag = "str" THEN {obj.v} ELSE {})

payload_matches(payload, pattern) ==
  LET name == payload_unit_name(payload)
  IN \/ truthy(name) /\ re_search(pattern, py_str(name))
     \/ \E s \in payload_strings(PyDict(payload), 0, 2) : re_search(pattern, s)

count_keys == <<k_count, k_amount, k_quantity, k_num, k_n>>

\* k in payload
has_item(payload, k) == \E i \in 1..Len(payload) : payload[i][1] = PyStr(k)

\* A variant of payload_count that stops at the first key that is present
payload_count_first_present(payload) ==
  LET there == {i \in 1..Len(count_keys) : has_item(payload, count_keys[i])}
      iv    == py_int(dict_get(payload, count_keys[SetMin(there)]))
  IN IF there = {} THEN 1 ELSE IF iv.ok /\ iv.val > 0 THEN iv.val ELSE 1

payload_count(payload) ==
  LET pos == {i \in 1..Len(count_keys) :
                LET iv == py_int(dict_get(payload, count_keys[i]))
                IN iv.ok /\ iv.val > 0}
  IN IF pos = {} THEN 1 ELSE py_int(dict_get(payload, count_keys[SetMin(pos)])).val

(***************************************************************************)
(* numpy and pandas                                                        *)
(***************************************************************************)
\* F(v), the value v being computed once however often F uses it
Bind(v, F(_)) == CHOOSE r \in {F(x) : x \in {v}} : TRUE

\* The sequence s as a tuple of its values (a function of domain 1..n is
\* the same sequence)
array(s) == s \o <<>>

\* ceil(a / b) for b > 0
CeilDiv(a, b) == IF a <= 0 THEN 0 ELSE ((a - 1) \div b) + 1

\* np.arange(start, stop, step): ceil((stop - start) / step) values
np_arange(start, stop, step) ==
  array([i \in 1..CeilDiv(stop - start, step) |-> start + (i - 1) * step])

RECURSIVE SeqSum(_)
SeqSum(s) == IF s = <<>> THEN 0 ELSE Head(s) + SeqSum(Tail(s))

\* Whether np.histogram puts t in bin j of the edges bins: each bin is
\* half-open [bins[j], bins[j+1]) but the last one, which is closed
in_bin(t, bins, j) ==
  /\ bins[j] <= t
  /\ \/ t < bins[j + 1]
     \/ j = Len(bins) - 1 /\ t = bins[j + 1]

\* np.histogram(t, bins=bins, weights=w)[0]; without weights each value counts 1
np_histogram(t, bins, w) ==
  array([j \in 1..(Len(bins) - 1) |->
           SeqSum([i \in 1..Len(t) |-> IF in_bin(t[i], bins, j) THEN w[i] ELSE 0])])

\* np.cumsum
np_cumsum(s) == array([j \in 1..Len(s) |-> SeqSum(SubSeq(s, 1, j))])

\* bins[:-1]
drop_last(s) == IF Len(s) = 0 THEN <<>> ELSE SubSeq(s, 1, Len(s) - 1)

\* A DataFrame: the index and one column of values per player id
Frame(index, cols) == [kind |-> "frame", index |-> index, cols |-> cols]

\* pd.DataFrame(): no index, no columns
EmptyFrame == Frame(<<>>, <<>>)

\* A raised exception
Raise(exc, msg) == [kind |-> "error", exc |-> exc, msg |-> msg]

\* df.empty
frame_empty(f) == Len(f.index) = 0 \/ DOMAIN f.cols = {}

(***************************************************************************)
(* metrics.py.  A match is [players, actions, duration]: the players'      *)
(* numbers, the actions [timestamp, player, type, payload] (player 0: the  *)
(* action has no player; type: the name of the action's type) and the      *)
(* duration in seconds.                                                    *)
(***************************************************************************)
t_TRAIN == <<"T","R","A","I","N">>

t_CREATE == <<"C","R","E","A","T","E">>

t_QUEUE == <<"Q","U","E","U","E">>

t_ORDER == <<"O","R","D","E","R">>

t_DE_QUEUE == <<"D","E","_","Q","U","E","U","E">>

t_BUILD == <<"B","U","I","L","D">>

t_RESEARCH == <<"R","E","S","E","A","R","C","H">>

t_BUY == <<"B","U","Y">>

t_SELL == <<"S","E","L","L">>

t_MOVE == <<"M","O","V","E">>

is_prod_event(tname) ==
  str_in(t_TRAIN, tname) \/ str_in(t_CREATE, tname) \/ str_in(t_QUEUE, tname) \/ tname = t_ORDER

\* The rows (t, player, w) of a function's DataFrame: the actions that pass
\* keep, in order, each with the weight weight gives it
rows_of(actions, keep(_), weight(_)) ==
  LET acts == SelectSeq(actions, keep)
  IN array([i \in 1..Len(acts) |->
              [t |-> acts[i].timestamp, player |-> acts[i].player, w |-> weight(acts[i])]])

\* A variant of window_bins that stops at max_t, np.arange(0, max_t,
\* window_sec): the last window is lost
window_bins_short(rows, window_sec) ==
  np_arange(0, SetMax({rows[i].t : i \in 1..Len(rows)}), window_sec)

\* bins = np.arange(0, max_t + window_sec, window_sec), max_t = df['t'].max()
window_bins(rows, window_sec) ==
  LET max_t == SetMax({rows[i].t : i \in 1..Len(rows)})
  IN np_arange(0, max_t + window_sec, window_sec)

\* df['player'].unique()
row_players(rows) == {rows[i].player : i \in 1..Len(rows)}

\* np.histogram(df.loc[mask, 't'], bins=bins, weights=df.loc[mask, 'w'])[0]
\* for mask = (df['player'] == pid)
player_histogram(rows, pid, bins) ==
  LET mine == SelectSeq(rows, LAMBDA r : r.player = pid)
  IN np_histogram([i \in 1..Len(mine) |-> mine[i].t], bins,
                  [i \in 1..Len(mine) |-> mine[i].w])

has_player(act) == act.player # 0

\* counts * (60.0 / window_sec): the value <<n, d>> is the number n / d
per_minute(counts, window_sec) ==
  array([j \in 1..Len(counts) |-> <<counts[j] * 60, window_sec>>])

\* A variant of apm_timeseries without the "if not rows" return: the maximum
\* of no timestamps is asked for
apm_timeseries_unguarded(m, window_sec) ==
  Bind(rows_of(m.actions, has_player, LAMBDA a : 1), LAMBDA rows :
    IF Len(rows) = 0 THEN Raise("ValueError", "max")
    ELSE Bind(window_bins(rows, window_sec), LAMBDA bins :
           Frame(drop_last(bins),
                 [pid \in row_players(rows) |->
                    Bind(player_histogram(rows, pid, bins), LAMBDA counts :
                      per_minute(counts, window_sec))])))

apm_timeseries(m, window_sec) ==
  Bind(rows_of(m.actions, has_player, LAMBDA a : 1), LAMBDA rows :
    IF Len(rows) = 0 THEN EmptyFrame
    ELSE Bind(window_bins(rows, window_sec), LAMBDA bins :
           Frame(drop_last(bins),
                 [pid \in row_players(rows) |->
                    Bind(player_histogram(rows, pid, bins), LAMBDA counts :
                      per_minute(counts, window_sec))])))

unit_created_timeseries(m, unit_pattern, window_sec) ==
  LET keep(a) == /\ is_prod_event(a.type)
                 /\ payload_matches(a.payload, unit_pattern)
                 /\ has_player(a)
  IN Bind(rows_of(m.actions, keep, LAMBDA a : payload_count(a.payload)), LAMBDA rows :
       IF Len(rows) = 0 THEN EmptyFrame
       ELSE Bind(window_bins(rows, window_sec), LAMBDA bins :
              Frame(drop_last(bins),
                    [pid \in row_players(rows) |-> player_histogram(rows, pid, bins)])))

villager_counts(m, villager_pattern) ==
  LET keep(a) == /\ is_prod_event(a.type)
                 /\ payload_matches(a.payload, villager_pattern)
                 /\ has_player(a)
      acts == SelectSeq(m.actions, keep)
      known == {m.players[i] : i \in 1..Len(m.players)}
  IN IF \E i \in 1..Len(acts) : acts[i].player \notin known
     THEN Raise("KeyError", "player")
     ELSE [kind |-> "dict",
           d |-> [p \in known |->
                    SeqSum([i \in 1..Len(acts) |->
                              IF acts[i].player = p THEN payload_count(acts[i].payload) ELSE 0])]]

(***************************************************************************)
(* Estimated spend and balance                                             *)
(***************************************************************************)
k_building == <<"b","u","i","l","d","i","n","g">>

k_building_name == <<"b","u","i","l","d","i","n","g","_","n","a","m","e">>

k_technology == <<"t","e","c","h","n","o","l","o","g","y">>

k_tech == <<"t","e","c","h">>

k_resource == <<"r","e","s","o","u","r","c","e">>

s_food == <<"f","o","o","d">>

s_wood == <<"w","o","o","d">>

s_gold == <<"g","o","l","d">>

s_stone == <<"s","t","o","n","e">>

NoDelta == [kind |-> "none"]

Delta(f, w, g, s) == [kind |-> "delta", d |-> <<f, w, g, s>>]

DeltaError(exc) == [kind |-> "error", exc |-> exc]

\* cost * -amt
spend_of(cost, amt) == Delta(-cost[1] * amt, -cost[2] * amt, -cost[3] * amt, -cost[4] * amt)

unit_types == { t_DE_QUEUE, t_QUEUE, t_ORDER, t_TRAIN, t_CREATE }

\* _resource_delta_for_action: a Delta, NoDelta for None, DeltaError where
\* int() raises
resource_delta_for_action(act) ==
  LET tname   == act.type
      payload == act.payload
      unit    == py_or(dict_get(payload, k_unit),
                 py_or(dict_get(payload, k_unit_name), dict_get(payload, k_object_name)))
      ucost   == IF tname \in unit_types /\ truthy(unit) THEN unit_cost(py_str(unit)) ELSE NoCost
      uamt    == py_int(py_or(dict_get(payload, k_amount), PyInt(1)))
      bname   == py_or(dict_get(payload, k_building), dict_get(payload, k_building_name))
      bcost   == IF tname = t_BUILD /\ truthy(bname) THEN building_cost(py_str(bname)) ELSE NoCost
      tech    == py_or(dict_get(payload, k_technology), dict_get(payload, k_tech))
      tcost   == IF tname = t_RESEARCH /\ truthy(tech) THEN tech_cost(py_str(tech)) ELSE NoCost
      resval  == dict_get(payload, k_resource)
      hasres  == \E i \in 1..Len(payload) : payload[i][1] = PyStr(k_resource)
      res     == str_lower(IF hasres THEN py_str(resval) ELSE <<>>)
      mamt    == py_int(py_or(dict_get(payload, k_amount), PyInt(0)))
      sign    == IF tname = t_BUY THEN 1 ELSE -1
  IN IF ucost # NoCost
     THEN (IF uamt.ok THEN spend_of(ucost, uamt.val) ELSE DeltaError(uamt.exc))
     ELSE IF bcost # NoCost THEN spend_of(bcost, 1)
     ELSE IF tcost # NoCost THEN spend_of(tcost, 1)
     ELSE IF tname \in {t_BUY, t_SELL}
     THEN (IF ~mamt.ok THEN DeltaError(mamt.exc)
           ELSE IF mamt.val = 0 THEN NoDelta
           ELSE IF str_in(s_food, res) THEN Delta(sign * mamt.val, 0, 0, 0)
           ELSE IF str_in(s_wood, res) THEN Delta(0, sign * mamt.val, 0, 0)
           ELSE IF str_in(s_gold, res) THEN Delta(0, 0, sign * mamt.val, 0)
           ELSE IF str_in(s_stone, res) THEN Delta(0, 0, 0, sign * mamt.val)
           ELSE NoDelta)
     ELSE NoDelta

\* A variant of resource_index that falls back to food for an unknown name
resource_index_default(res) ==
  CASE res = s_wood  -> 2
    [] res = s_gold  -> 3
    [] res = s_stone -> 4
    [] OTHER         -> 1

\* {'food': 0, 'wood': 1, 'gold': 2, 'stone': 3}.get(res), from 1; 0 for None
resource_index(res) ==
  CASE res = s_food  -> 1
    [] res = s_wood  -> 2
    [] res = s_gold  -> 3
    [] res = s_stone -> 4
    [] OTHER         -> 0

\* A variant of player_deltas in which an action without a delta counts as a
\* delta of nothing, (0, 0, 0, 0), instead of being skipped
player_deltas_zero(actions) ==
  LET acts == SelectSeq(actions, has_player)
  IN array([i \in 1..Len(acts) |->
              [t |-> acts[i].timestamp, player |-> acts[i].player,
               delta |-> LET d == resource_delta_for_action(acts[i])
                         IN IF d = NoDelta THEN Delta(0, 0, 0, 0) ELSE d]])

\* The deltas of the actions that have a player, in order
player_deltas(actions) ==
  LET acts == SelectSeq(actions, has_player)
  IN array([i \in 1..Len(acts) |->
              [t |-> acts[i].timestamp, player |-> acts[i].player,
               delta |-> resource_delta_for_action(acts[i])]])

\* Whether building the rows raises: some int() of the loop raised
deltas_raise(ds) == \E i \in 1..Len(ds) : ds[i].delta.kind = "error"

\* What it raises: the first action's exception
deltas_error(ds) ==
  Raise(ds[SetMin({i \in 1..Len(ds) : ds[i].delta.kind = "error"})].delta.exc, "int()")

msg_unsupported == "Recurso no soportado"

\* The rows built from the deltas that pass keep, each with weight val
delta_rows(ds, keep(_), val(_)) ==
  LET sel == SelectSeq(ds, LAMBDA r : r.delta.kind = "delta" /\ keep(r.delta.d))
  IN array([i \in 1..Len(sel) |->
              [t |-> sel[i].t, player |-> sel[i].player, w |-> val(sel[i].delta.d)]])

resource_spend_timeseries(m, resource, window_sec) ==
  Bind(resource_index(str_lower(resource)), LAMBDA idx :
    IF idx = 0 THEN Raise("ValueError", msg_unsupported)
    ELSE Bind(player_deltas(m.actions), LAMBDA ds :
      IF deltas_raise(ds) THEN deltas_error(ds)
      ELSE Bind(delta_rows(ds, LAMBDA d : d[idx] < 0, LAMBDA d : -d[idx]), LAMBDA rows :
        IF Len(rows) = 0 THEN EmptyFrame
        ELSE Bind(window_bins(rows, window_sec), LAMBDA bins :
               Frame(drop_last(bins),
                     [pid \in row_players(rows) |-> player_histogram(rows, pid, bins)])))))

\* np.cumsum(sums) + start_at
balance_from(sums, start_at) ==
  Bind(np_cumsum(sums), LAMBDA bal : array([j \in 1..Len(bal) |-> bal[j] + start_at]))

resource_balance_timeseries(m, resource, window_sec, start_at) ==
  Bind(resource_index(str_lower(resource)), LAMBDA idx :
    IF idx = 0 THEN Raise("ValueError", msg_unsupported)
    ELSE Bind(player_deltas(m.actions), LAMBDA ds :
      IF deltas_raise(ds) THEN deltas_error(ds)
      ELSE Bind(delta_rows(ds, LAMBDA d : TRUE, LAMBDA d : d[idx]), LAMBDA rows :
        IF Len(rows) = 0 THEN EmptyFrame
        ELSE Bind(window_bins(rows, window_sec), LAMBDA bins :
               Frame(drop_last(bins),
                     [pid \in row_players(rows) |->
                        Bind(player_histogram(rows, pid, bins), LAMBDA sums :
                          balance_from(sums, start_at))])))))

\* sum((-v) for v in delta if v < 0)
total_spend_of(d) == SeqSum([k \in 1..4 |-> IF d[k] < 0 THEN -d[k] ELSE 0])

total_spend_timeseries(m, window_sec, cumulative) ==
  Bind(player_deltas(m.actions), LAMBDA ds :
    IF deltas_raise(ds) THEN deltas_error(ds)
    ELSE Bind(delta_rows(ds, LAMBDA d : total_spend_of(d) > 0, total_spend_of), LAMBDA rows :
      IF Len(rows) = 0 THEN EmptyFrame
      ELSE Bind(window_bins(rows, window_sec), LAMBDA bins :
             Frame(drop_last(bins),
                   [pid \in row_players(rows) |->
                      Bind(player_histogram(rows, pid, bins), LAMBDA sums :
                        IF cumulative THEN np_cumsum(sums) ELSE sums)]))))

\* A variant of reindex_ffill without method='ffill': the value at the
\* equal label of index
reindex_exact(index, values, idx) ==
  array([j \in 1..Len(idx) |->
           LET seen == {i \in 1..Len(index) : index[i] = idx[j]}
           IN IF seen = {} THEN 0 ELSE values[SetMax(seen)]])

\* f.reindex(idx, method='ffill') then fillna(0), for one column: at each
\* label of idx the value at the latest label of index that is <= it
reindex_ffill(index, values, idx) ==
  array([j \in 1..Len(idx) |->
           LET seen == {i \in 1..Len(index) : index[i] <= idx[j]}
           IN IF seen = {} THEN 0
              ELSE values[CHOOSE i \in seen : \A k \in seen : index[k] <= index[i]]])

\* The labels of the given indexes, sorted: idx.union(f.index) over the frames
index_union(indexes) ==
  LET labels == UNION {{ix[i] : i \in 1..Len(ix)} : ix \in indexes}
  IN array([j \in 1..Cardinality(labels) |->
              CHOOSE x \in labels : Cardinality({y \in labels : y < x}) = j - 1])

\* The frames list of approximate_total_balance_timeseries: one balance frame
\* per resource, pd.DataFrame() where resource_balance_timeseries raised
balance_frames(m, window_sec, start_at) ==
  LET res_names == <<s_food, s_wood, s_gold, s_stone>>
      balance(k) ==
        Bind(resource_balance_timeseries(m, res_names[k], window_sec, start_at[k]),
             LAMBDA ts : IF ts.kind = "error" THEN EmptyFrame ELSE ts)
  IN <<balance(1), balance(2), balance(3), balance(4)>>

\* f.reindex(idx).fillna(method='ffill').fillna(0)[col] summed over the
\* frames that are not empty and have the column
total_column(frames, used, idx, col) ==
  LET part(k) ==
        IF k \in used /\ col \in DOMAIN frames[k].cols
        THEN reindex_ffill(frames[k].index, frames[k].cols[col], idx)
        ELSE [j \in 1..Len(idx) |-> 0]
  IN Bind(<<part(1), part(2), part(3), part(4)>>, LAMBDA parts :
       array([j \in 1..Len(idx) |-> parts[1][j] + parts[2][j] + parts[3][j] + parts[4][j]]))

approximate_total_balance_timeseries(m, window_sec, start_at) ==
  Bind(balance_frames(m, window_sec, start_at), LAMBDA frames :
    Bind({k \in 1..Len(frames) : ~frame_empty(frames[k])}, LAMBDA used :
      IF used = {} THEN EmptyFrame
      ELSE Bind(index_union({frames[k].index : k \in used}), LAMBDA idx :
             Frame(idx, [col \in UNION {DOMAIN frames[k].cols : k \in used} |->
                           total_column(frames, used, idx, col)]))))

(***************************************************************************)
(* Town-center idle time                                                   *)
(***************************************************************************)
\* last_train[pid] is None
NoTime == -1

\* The state of the loop of tc_idle_time and of tc_idle_cumulative_timeseries
idle_start(m) ==
  LET known == {m.players[i] : i \in 1..Len(m.players)}
  IN [idle |-> [p \in known |-> 0],
      last |-> [p \in known |-> NoTime],
      incs |-> [p \in known |-> <<>>],
      raised |-> FALSE]

\* max(0.0, x)
max0(x) == IF x > 0 THEN x ELSE 0

\* A variant of idle_step that counts a gap equal to gap_threshold
idle_step_ge(st, act, pattern, base_prod_time, gap_threshold) ==
  IF \/ st.raised
     \/ ~is_prod_event(act.type)
     \/ ~payload_matches(act.payload, pattern)
     \/ ~has_player(act)
  THEN st
  ELSE IF act.player \notin DOMAIN st.last
  THEN [st EXCEPT !.raised = TRUE]
  ELSE LET pid == act.player
           t   == act.timestamp
           gap == t - st.last[pid]
           hit == st.last[pid] # NoTime /\ gap >= gap_threshold
           inc == max0(gap - base_prod_time)
       IN [st EXCEPT !.idle[pid] = IF hit THEN @ + inc ELSE @,
                     !.incs[pid] = IF hit THEN Append(@, <<t, inc>>) ELSE @,
                     !.last[pid] = t]

\* A variant of idle_step with one previous-event timestamp for all the
\* players
idle_step_shared(st, act, pattern, base_prod_time, gap_threshold) ==
  IF \/ st.raised
     \/ ~is_prod_event(act.type)
     \/ ~payload_matches(act.payload, pattern)
     \/ ~has_player(act)
  THEN st
  ELSE IF act.player \notin DOMAIN st.last
  THEN [st EXCEPT !.raised = TRUE]
  ELSE LET pid == act.player
           t   == act.timestamp
           gap == t - st.last[pid]
           hit == st.last[pid] # NoTime /\ gap > gap_threshold
           inc == max0(gap - base_prod_time)
       IN [st EXCEPT !.idle[pid] = IF hit THEN @ + inc ELSE @,
                     !.incs[pid] = IF hit THEN Append(@, <<t, inc>>) ELSE @,
                     !.last = [p \in DOMAIN @ |-> t]]

\* One turn of the loop, for the action act
idle_step(st, act, pattern, base_prod_time, gap_threshold) ==
  IF \/ st.raised
     \/ ~is_prod_event(act.type)
     \/ ~payload_matches(act.payload, pattern)
     \/ ~has_player(act)
  THEN st
  ELSE IF act.player \notin DOMAIN st.last
  THEN [st EXCEPT !.raised = TRUE]
  ELSE LET pid == act.player
           t   == act.timestamp
           gap == t - st.last[pid]
           hit == st.last[pid] # NoTime /\ gap > gap_threshold
           inc == max0(gap - base_prod_time)
       IN [st EXCEPT !.idle[pid] = IF hit THEN @ + inc ELSE @,
                     !.incs[pid] = IF hit THEN Append(@, <<t, inc>>) ELSE @,
                     !.last[pid] = t]

RECURSIVE idle_loop(_, _, _, _, _)
idle_loop(st, actions, pattern, base_prod_time, gap_threshold) ==
  IF actions = <<>> THEN st
  ELSE Bind(idle_step(st, Head(actions), pattern, base_prod_time, gap_threshold),
            LAMBDA after : idle_loop(after, Tail(actions), pattern, base_prod_time,
                                     gap_threshold))

tc_idle_time(m, villager_pattern, base_prod_time, gap_threshold) ==
  LET st == idle_loop(idle_start(m), m.actions, villager_pattern, base_prod_time, gap_threshold)
  IN IF st.raised THEN Raise("KeyError", "player")
     ELSE [kind |-> "dict", d |-> st.idle]

\* pairs.sort(key=lambda x: x[0]), a stable sort
sort_pairs(pairs) ==
  array([j \in 1..Len(pairs) |->
           pairs[CHOOSE i \in 1..Len(pairs) :
                   Cardinality({k \in 1..Len(pairs) :
                                  \/ pairs[k][1] < pairs[i][1]
                                  \/ pairs[k][1] = pairs[i][1] /\ k < i}) = j - 1]])

tc_idle_cumulative_timeseries(m, villager_pattern, window_sec, base_prod_time, gap_threshold) ==
  LET st == idle_loop(idle_start(m), m.actions, villager_pattern, base_prod_time, gap_threshold)
      all_times == UNION {{st.incs[p][i][1] : i \in 1..Len(st.incs[p])} : p \in DOMAIN st.incs}
      bins == np_arange(0, SetMax(all_times) + window_sec, window_sec)
      with == {p \in DOMAIN st.incs : Len(st.incs[p]) > 0}
      \* a Series with a repeated label cannot be reindexed
      repeated(p) == \E i, k \in 1..Len(st.incs[p]) : i # k /\ st.incs[p][i][1] = st.incs[p][k][1]
  IN IF st.raised THEN Raise("KeyError", "player")
     ELSE IF all_times = {} THEN EmptyFrame
     ELSE IF \E p \in with : repeated(p) THEN Raise("ValueError", "reindex")
     ELSE Frame(drop_last(bins),
                [p \in with |->
                   LET pairs == sort_pairs(st.incs[p])
                       t_arr == [i \in 1..Len(pairs) |-> pairs[i][1]]
                       cum   == np_cumsum([i \in 1..Len(pairs) |-> pairs[i][2]])
                   IN drop_last(reindex_ffill(t_arr, cum, bins))])

(***************************************************************************)
(* Postgame totals: resource_totals_postgame.  The file is postgame =       *)
(* [file, data, summary, players]: whether it can be read ("ok",           *)
(* "ioerror"), what mgz.fast.postgame decodes from it, whether the mgz     *)
(* summary can be made ("ok", "error") and the players it gives.  A bucket *)
(* is <<food, wood, gold, stone>>; results maps player ids to buckets.     *)
(***************************************************************************)
k_total_collected == <<"t","o","t","a","l","_","c","o","l","l","e","c","t","e","d">>

k_economy == <<"e","c","o","n","o","m","y">>

\* The names pick() is asked for, per resource
flat_names ==
  << << <<"f","o","o","d">>, <<"f","o","o","d","_","c","o","l","l","e","c","t","e","d">>, <<"t","o","t","a","l","_","f","o","o","d">> >>,
     << <<"w","o","o","d">>, <<"w","o","o","d","_","c","o","l","l","e","c","t","e","d">>, <<"t","o","t","a","l","_","w","o","o","d">> >>,
     << <<"g","o","l","d">>, <<"g","o","l","d","_","c","o","l","l","e","c","t","e","d">>, <<"t","o","t","a","l","_","g","o","l","d">> >>,
     << <<"s","t","o","n","e">>, <<"s","t","o","n","e","_","c","o","l","l","e","c","t","e","d">>, <<"t","o","t","a","l","_","s","t","o","n","e">> >> >>

\* The fields maybe_record reads the player id from, in order
id_keys == << <<"p","l","a","y","e","r","_","i","d">>, <<"p","l","a","y","e","r">>, <<"i","d">>, <<"p","r","o","f","i","l","e","_","i","d">> >>

\* The containers inspected first
container_keys == << <<"p","l","a","y","e","r","s">>, <<"p","l","a","y","e","r">>, <<"a","c","h","i","e","v","e","m","e","n","t","s">>, <<"p","o","s","t","g","a","m","e">>, <<"s","u","m","m","a","r","y">> >>

Bucket(f, w, g, s) == [kind |-> "bucket", v |-> <<f, w, g, s>>]

\* norm_bucket returned None
NoBucket == [kind |-> "none"]

\* norm_bucket raised
BucketError(exc) == [kind |-> "error", exc |-> exc]

\* as_float(x): float(x), 0.0 where float() raises
as_float(x) == LET n == py_int(x) IN IF n.ok THEN n.val ELSE 0

\* k in d, for the items d of a dict and a str key k
has_key(d, k) == \E i \in 1..Len(d) : d[i][1] = PyStr(k)

\* {k.lower() for k in d.keys()} raises AttributeError
some_key_not_str(d) == \E i \in 1..Len(d) : d[i][1].tag # "str"

\* k in {kk.lower() for kk in d.keys()}
has_key_lower(d, k) == \E i \in 1..Len(d) : str_lower(d[i][1].v) = k

\* pick() returned None
NotPicked == [found |-> FALSE, val |-> 0]

Picked(x) == [found |-> TRUE, val |-> x]

RECURSIVE pick(_, _)
\* pick(*names): the first name that is a key of d, or is one in lower case
pick(d, names) ==
  IF names = <<>> THEN NotPicked
  ELSE LET n  == Head(names)
           ci == {i \in 1..Len(d) : str_lower(d[i][1].v) = n}
       IN IF has_key(d, n) THEN Picked(as_float(dict_get(d, n)))
          ELSE IF ci # {} THEN Picked(as_float(d[SetMin(ci)][2]))
          ELSE pick(d, Tail(names))

RECURSIVE norm_bucket(_)
norm_bucket(d) ==
  LET td    == dict_get(d, k_total_collected)
      eco   == dict_get(d, k_economy)
      picks == [k \in 1..4 |-> pick(d, flat_names[k])]
      vals  == SelectSeq(picks, LAMBDA x : x.found)
  IN IF some_key_not_str(d) THEN BucketError("AttributeError")
     ELSE IF td.tag = "dict" /\ some_key_not_str(td.v) THEN BucketError("AttributeError")
     ELSE IF td.tag = "dict" /\ \A k \in 1..4 : has_key_lower(td.v, flat_names[k][1])
     THEN Bucket(as_float(dict_get(td.v, flat_names[1][1])),
                 as_float(dict_get(td.v, flat_names[2][1])),
                 as_float(dict_get(td.v, flat_names[3][1])),
                 as_float(dict_get(td.v, flat_names[4][1])))
     ELSE IF Len(vals) >= 2 \/ (Len(vals) = 1 /\ vals[1].val > 0)
     THEN Bucket(picks[1].val, picks[2].val, picks[3].val, picks[4].val)
     ELSE IF eco.tag = "dict" THEN norm_bucket(eco.v)
     ELSE NoBucket

\* results[pid] = bucket
put(results, pid, bucket) ==
  [p \in DOMAIN results \cup {pid} |-> IF p = pid THEN bucket ELSE results[p]]

\* ordered_buckets[idx] = bucket, the list first made long enough with
\* buckets of zeros
set_ordered(ordered, idx, bucket) ==
  [i \in 1..(IF Len(ordered) > idx + 1 THEN Len(ordered) ELSE idx + 1) |->
     IF i = idx + 1 THEN bucket
     ELSE IF i <= Len(ordered) THEN ordered[i] ELSE <<0, 0, 0, 0>>]

\* results and ordered_buckets before the scan
scan_start == [results |-> <<>>, ordered |-> <<>>, raised |-> "none"]

\* The pid of maybe_record: int() of the first truthy id field, None where
\* int() raises
explicit_pid(d) ==
  py_int(py_or(dict_get(d, id_keys[1]),
         py_or(dict_get(d, id_keys[2]),
         py_or(dict_get(d, id_keys[3]), dict_get(d, id_keys[4])))))

\* maybe_record(d, idx_for_fallback); idx is PyNone or PyInt(i)
maybe_record(st, d, idx) ==
  IF st.raised # "none" THEN st
  ELSE Bind(norm_bucket(d), LAMBDA bucket :
         IF bucket.kind = "error" THEN [st EXCEPT !.raised = bucket.exc]
         ELSE IF bucket.kind = "none" THEN st
         ELSE Bind(explicit_pid(d), LAMBDA pid :
                IF pid.ok THEN [st EXCEPT !.results = put(@, pid.val, bucket.v)]
                ELSE IF idx.tag = "int"
                THEN [st EXCEPT !.ordered = set_ordered(@, idx.v, bucket.v)]
                ELSE st))

RECURSIVE scan_list(_, _, _)
\* for i, item in enumerate(obj): if isinstance(item, dict): maybe_record(item, i)
scan_list(st, elems, i) ==
  IF i > Len(elems) THEN st
  ELSE Bind(IF elems[i].tag = "dict" THEN maybe_record(st, elems[i].v, PyInt(i - 1)) ELSE st,
            LAMBDA after : scan_list(after, elems, i + 1))

\* One item k: v of a container that is a dict keyed by player id
keyed_record(st, k, v) ==
  IF st.raised # "none" \/ v.tag # "dict" \/ ~py_int(k).ok THEN st
  ELSE Bind(norm_bucket(v.v), LAMBDA bucket :
         IF bucket.kind = "error" THEN [st EXCEPT !.raised = bucket.exc]
         ELSE IF bucket.kind = "none" THEN st
         ELSE [st EXCEPT !.results = put(@, py_int(k).val, bucket.v)])

RECURSIVE scan_dict(_, _, _)
scan_dict(st, items, i) ==
  IF i > Len(items) THEN st
  ELSE Bind(keyed_record(st, items[i][1], items[i][2]),
            LAMBDA after : scan_dict(after, items, i + 1))

RECURSIVE scan_containers(_, _, _)
\* for key in ('players', 'player', 'achievements', 'postgame', 'summary')
scan_containers(st, data, k) ==
  IF k > Len(container_keys) \/ data.tag # "dict" THEN st
  ELSE Bind(dict_get(data.v, container_keys[k]), LAMBDA obj :
         Bind(CASE obj.tag = "list" -> scan_list(st, obj.v, 1)
                [] obj.tag = "dict" -> scan_dict(st, obj.v, 1)
                [] OTHER            -> st,
              LAMBDA after : scan_containers(after, data, k + 1)))

RECURSIVE walk(_, _)
RECURSIVE walk_each(_, _, _, _)
\* walk(obj), the generic deep walk
walk(st, obj) ==
  CASE obj.tag = "dict" ->
         Bind(maybe_record(st, obj.v, PyNone), LAMBDA after :
           walk_each(after, [i \in 1..Len(obj.v) |-> obj.v[i][2]], 1, FALSE))
    [] obj.tag = "list" -> walk_each(st, obj.v, 1, TRUE)
    [] OTHER -> st

\* The loop of walk over the values of a dict or the elements of a list
walk_each(st, vals, i, in_list) ==
  IF i > Len(vals) THEN st
  ELSE Bind(IF in_list /\ vals[i].tag = "dict"
            THEN maybe_record(st, vals[i].v, PyInt(i - 1)) ELSE st,
            LAMBDA seen :
              Bind(walk(seen, vals[i]), LAMBDA after : walk_each(after, vals, i + 1, in_list)))

RECURSIVE summary_totals(_, _)
\* tmp of the summary fallback: the players with a number and a positive
\* collected amount; a summary player is [number, collected]
summary_totals(tmp, players) ==
  IF players = <<>> THEN tmp
  ELSE LET p == Head(players)
       IN summary_totals(IF p.number.tag = "int" /\ \E k \in 1..4 : p.collected[k] > 0
                         THEN put(tmp, p.number.v, p.collected) ELSE tmp,
                         Tail(players))

\* out of the positional fallback: bucket i of ordered_buckets for player i
positional(ordered) ==
  [i \in {k \in 1..Len(ordered) : \E r \in 1..4 : ordered[k][r] > 0} |-> ordered[i]]

\* A returned dict
Mapping(d) == [kind |-> "dict", d |-> d]

resource_totals_postgame(pg) ==
  Bind(IF pg.file = "ok" THEN pg.data ELSE PyDict(<<>>), LAMBDA data :
    Bind(scan_containers(scan_start, data, 1), LAMBDA found :
      Bind(IF DOMAIN found.results = {} THEN walk(found, data) ELSE found, LAMBDA st :
        IF st.raised # "none" THEN Raise(st.raised, "lower")
        ELSE IF DOMAIN st.results # {} THEN Mapping(st.results)
        ELSE Bind(IF pg.file = "ok" /\ pg.summary = "ok"
                  THEN summary_totals(<<>>, pg.players) ELSE <<>>,
                  LAMBDA tmp :
                    IF DOMAIN tmp # {} THEN Mapping(tmp)
                    ELSE Mapping(positional(st.ordered))))))

(***************************************************************************)
(* Postgame totals spread over the match                                   *)
(***************************************************************************)
\* A variant of np_linspace0 with endpoint=False
np_linspace0_open(stop, num) ==
  array([i \in 1..num |-> IF num = 1 THEN <<0, 1>> ELSE <<(i - 1) * stop, num>>])

\* np.linspace(0.0, stop, num=num): each value a pair <<numerator, denominator>>
np_linspace0(stop, num) ==
  array([i \in 1..num |-> IF num = 1 THEN <<0, 1>> ELSE <<(i - 1) * stop, num - 1>>])

\* per_player_totals: player id -> <<food, wood, gold, stone>>
resource_cumulative_timeseries(m, per_player_totals, resource, window_sec) ==
  LET idx  == resource_index(str_lower(resource))
      bins == np_arange(0, m.duration + window_sec, window_sec)
      known == {m.players[i] : i \in 1..Len(m.players)}
  IN IF idx = 0 THEN Raise("ValueError", msg_unsupported)
     ELSE Frame(drop_last(bins),
                [pid \in known |->
                   LET total_val == IF pid \in DOMAIN per_player_totals
                                    THEN per_player_totals[pid][idx] ELSE 0
                   IN np_linspace0(total_val, Len(bins) - 1)])

(***************************************************************************)
(* Important events                                                        *)
(***************************************************************************)
s_feudal_age == <<"f","e","u","d","a","l"," ","a","g","e">>

s_castle_age == <<"c","a","s","t","l","e"," ","a","g","e">>

s_imperial_age == <<"i","m","p","e","r","i","a","l"," ","a","g","e">>

s_elite_lower == <<"e","l","i","t","e"," ">>

s_castle == <<"c","a","s","t","l","e">>

s_town_center == <<"t","o","w","n"," ","c","e","n","t","e","r">>

hi_techs ==
  { <<"b","r","a","c","e","r">>, <<"c","h","e","m","i","s","t","r","y">>,
    <<"h","a","n","d"," ","c","a","r","t">>, <<"w","h","e","e","l","b","a","r","r","o","w">>,
    <<"c","o","n","s","c","r","i","p","t","i","o","n">>, <<"b","a","l","l","i","s","t","i","c","s">>,
    <<"s","i","e","g","e"," ","e","n","g","i","n","e","e","r","s">>,
    <<"a","r","c","h","i","t","e","c","t","u","r","e">>, <<"t","h","u","m","b"," ","r","i","n","g">> }

Event(t, pid, label, kind) == [time_sec |-> t, player |-> pid, label |-> label, kind |-> kind]

\* The rows one action appends
event_rows(act) ==
  LET tech  == py_str(py_or(dict_get(act.payload, k_technology), PyStr(<<>>)))
      lname == str_lower(tech)
      b     == py_str(py_or(dict_get(act.payload, k_building), PyStr(<<>>)))
      lb    == str_lower(b)
      t     == act.timestamp
      pid   == act.player
  IN IF ~has_player(act) THEN <<>>
     ELSE IF act.type = t_RESEARCH
     THEN (IF lname \in {s_feudal_age, s_castle_age, s_imperial_age} THEN <<Event(t, pid, tech, "age")>>
           ELSE IF str_startswith(lname, s_elite_lower) THEN <<Event(t, pid, tech, "elite")>>
           ELSE IF \E k \in hi_techs : str_in(k, lname) THEN <<Event(t, pid, tech, "tech")>>
           ELSE <<>>)
     ELSE IF act.type = t_BUILD
     THEN (IF lb = s_castle THEN <<Event(t, pid, b, "castle")>> ELSE <<>>)
            \o (IF lb = s_town_center THEN <<Event(t, pid, b, "tc")>> ELSE <<>>)
     ELSE <<>>

RECURSIVE all_event_rows(_)
all_event_rows(actions) ==
  IF actions = <<>> THEN <<>> ELSE event_rows(Head(actions)) \o all_event_rows(Tail(actions))

\* df.sort_values('time_sec'): the sort is not stable, so rows of equal time
\* come out in any order; the set of the orders it may produce
sort_values_time(rows) ==
  LET n == Len(rows)
      perms == {p \in [1..n -> 1..n] :
                  /\ \A i, j \in 1..n : i # j => p[i] # p[j]
                  /\ \A i \in 1..(n - 1) : rows[p[i]].time_sec <= rows[p[i + 1]].time_sec}
  IN {[i \in 1..n |-> rows[p[i]]] : p \in perms}

\* A variant of drop_duplicates with keep='last'
drop_duplicates_last(rows) ==
  LET last == {i \in 1..Len(rows) :
                 \A k \in (i + 1)..Len(rows) :
                    ~(rows[k].player = rows[i].player /\ rows[k].label = rows[i].label)}
  IN array([j \in 1..Cardinality(last) |->
              rows[CHOOSE i \in last : Cardinality({k \in last : k < i}) = j - 1]])

\* df.drop_duplicates(subset=['player', 'label'], keep='first')
drop_duplicates(rows) ==
  LET first == {i \in 1..Len(rows) :
                  \A k \in 1..(i - 1) :
                     ~(rows[k].player = rows[i].player /\ rows[k].label = rows[i].label)}
  IN array([j \in 1..Cardinality(first) |->
              rows[CHOOSE i \in first : Cardinality({k \in first : k < i}) = j - 1]])

\* important_events: the DataFrames it may return
important_events(m) ==
  LET rows == all_event_rows(m.actions)
  IN {[kind |-> "events", rows |-> drop_duplicates(sorted)] : sorted \in sort_values_time(rows)}

(***************************************************************************)
(* metrics.py: sync_total_resources_timeseries.  The body of the replay    *)
(* file is the sequence of what fast.operation does at each call: it       *)
(* returns (op_type, payload) or raises, and has consumed the record in    *)
(* both cases; past the last record it raises EOFError.  A time is kept    *)
(* in milliseconds, the numerator of t = float(t_ms) / 1000.0.             *)
(***************************************************************************)
k_current_time == <<"c","u","r","r","e","n","t","_","t","i","m","e">>

k_total_res == <<"t","o","t","a","l","_","r","e","s">>

MsPerSec == 1000

PyTuple(elems) == [tag |-> "tuple", v |-> elems]

\* fast.operation raised an exception that is not EOFError
ReaderError(exc) == [kind |-> "raise", exc |-> exc]

\* fast.operation returned (op_type, payload)
Operation(type, payload) == [kind |-> "op", type |-> type, payload |-> payload]

\* times, per_pid and the position in the body when the loop starts
ScanStart == [pc |-> "loop", pos |-> 1, times |-> <<>>, per_pid |-> <<>>, exc |-> "none"]

\* per_pid.setdefault(pid, []).append(pair)
append_pair(per_pid, pid, pair) ==
  [p \in DOMAIN per_pid \cup {pid} |->
     IF p = pid THEN (IF pid \in DOMAIN per_pid THEN Append(per_pid[pid], pair) ELSE <<pair>>)
     ELSE per_pid[p]]

\* float(v.get('total_res', 0.0)) if isinstance(v, dict) else 0.0
total_res_of(v) ==
  IF v.tag = "dict" /\ has_key(v.v, k_total_res) THEN py_int(dict_get(v.v, k_total_res))
  ELSE IsInt(0)

RECURSIVE sync_items(_, _, _, _)
\* for k, v in pl.items(), from item i on, for the record of time t
sync_items(st, items, i, t) ==
  IF i > Len(items) \/ st.pc # "loop" THEN st
  ELSE Bind(IF items[i][1] = PyStr(k_current_time) \/ ~py_int(items[i][1]).ok THEN st
            ELSE Bind(total_res_of(items[i][2]), LAMBDA total :
                   IF ~total.ok THEN [st EXCEPT !.pc = "raised", !.exc = total.exc]
                   ELSE [st EXCEPT !.per_pid =
                           append_pair(@, py_int(items[i][1]).val, <<t, total.val>>)]),
            LAMBDA after : sync_items(after, items, i + 1, t))

\* A SYNC record with the payload pl, a dict
sync_record(st, pl) ==
  Bind(dict_get(pl, k_current_time), LAMBDA t_ms :
    IF t_ms.tag = "none" THEN st
    ELSE IF ~py_int(t_ms).ok THEN [st EXCEPT !.pc = "raised", !.exc = py_int(t_ms).exc]
    ELSE sync_items([st EXCEPT !.times = Append(@, py_int(t_ms).val)], pl, 1, py_int(t_ms).val))

\* One turn of the while loop: st.pos is the record fast.operation is at
sync_operation(st, records) ==
  IF st.pos > Len(records) THEN [st EXCEPT !.pc = "break"]
  ELSE Bind(records[st.pos], LAMBDA rec :
         Bind([st EXCEPT !.pos = @ + 1], LAMBDA next :
           IF rec.kind = "raise" THEN next
           ELSE IF rec.type # "SYNC" THEN next
           ELSE IF rec.payload.tag # "tuple"
           THEN [next EXCEPT !.pc = "raised", !.exc = "TypeError"]
           ELSE IF Len(rec.payload.v) # 3
           THEN [next EXCEPT !.pc = "raised", !.exc = "ValueError"]
           ELSE IF rec.payload.v[3].tag # "dict" THEN next
           ELSE sync_record(next, rec.payload.v[3].v)))

\* pd.Series(val_arr, index=t_arr) has two equal labels
has_duplicates(pairs) ==
  \E i, j \in 1..Len(pairs) : i < j /\ pairs[i][1] = pairs[j][1]

\* s.reindex(bins, method='ffill').fillna(method='bfill').fillna(0.0) for
\* the sorted pairs of s: at each bin the value of the last label <= bin,
\* else the next such value of a later bin, else 0.0
reindex_ffill_bfill(pairs, bins) ==
  LET last(j) == LET seen == {i \in 1..Len(pairs) : pairs[i][1] <= bins[j]}
                 IN IF seen = {} THEN 0 ELSE SetMax(seen)
      filled == [j \in 1..Len(bins) |-> last(j)]
  IN array([j \in 1..Len(bins) |->
              IF filled[j] # 0 THEN pairs[filled[j]][2]
              ELSE LET later == {k \in (j + 1)..Len(bins) : filled[k] # 0}
                   IN IF later = {} THEN 0 ELSE pairs[filled[SetMin(later)]][2]])

\* The statements after the loop
sync_resample(st, window_sec) ==
  IF DOMAIN st.per_pid = {} THEN EmptyFrame
  ELSE Bind(np_arange(0, SetMax({st.times[i] : i \in 1..Len(st.times)}) + MsPerSec * window_sec,
                      MsPerSec * window_sec),
            LAMBDA bins :
              IF \E pid \in DOMAIN st.per_pid : has_duplicates(st.per_pid[pid])
              THEN Raise("ValueError", "cannot reindex on an axis with duplicate labels")
              ELSE Frame(array([j \in 1..(Len(bins) - 1) |-> bins[j] \div MsPerSec]),
                         [pid \in DOMAIN st.per_pid |->
                            drop_last(reindex_ffill_bfill(sort_pairs(st.per_pid[pid]), bins))]))

(***************************************************************************)
(* The state machine.  match and postgame are the inputs of the engine     *)
(* (the parsed match, the decoded postgame data); call is the operation    *)
(* called last with its arguments and ret what it returned or raised.      *)
(***************************************************************************)
MaxT == 3

MaxLen == 2

MaxW == 2

EmptyMatch == [players |-> <<>>, actions |-> <<>>, duration |-> 0]

NoCall == [op |-> "none"]

NoPostgame == <<>>

\* No replay file is being scanned
NoStream == <<>>

NoScan == [pc |-> "idle"]

s_Villager == <<"V","i","l","l","a","g","e","r">>

s_Knight == <<"K","n","i","g","h","t">>

s_Castle == <<"C","a","s","t","l","e">>

s_Feudal_Age == <<"F","e","u","d","a","l"," ","A","g","e">>

s_Loom == <<"L","o","o","m">>

s_Trebuchet == <<"T","r","e","b","u","c","h","e","t">>

s_Food == <<"F","o","o","d">>

s_oil == <<"o","i","l">>

\* An action without its timestamp
Shape(player, type, payload) == [player |-> player, type |-> type, payload |-> payload]

TrainVillager(p) == Shape(p, t_DE_QUEUE, << <<PyStr(k_unit), PyStr(s_Villager)>> >>)

TrainKnights(p, n) ==
  Shape(p, t_DE_QUEUE, << <<PyStr(k_unit), PyStr(s_Knight)>>, <<PyStr(k_amount), PyInt(n)>> >>)

TrainTrebuchet(p) == Shape(p, t_DE_QUEUE, << <<PyStr(k_unit), PyStr(s_Trebuchet)>> >>)

BuildCastle(p) == Shape(p, t_BUILD, << <<PyStr(k_building), PyStr(s_Castle)>> >>)

Research(p, tech) == Shape(p, t_RESEARCH, << <<PyStr(k_technology), PyStr(tech)>> >>)

Market(p, type, res, n) ==
  Shape(p, type, << <<PyStr(k_resource), PyStr(res)>>, <<PyStr(k_amount), PyInt(n)>> >>)

Move(p) == Shape(p, t_MOVE, <<>>)

At(shape, t) ==
  [timestamp |-> t, player |-> shape.player, type |-> shape.type, payload |-> shape.payload]

\* The lists of at most n actions of the given shapes at the given times
ActionSeqs(shapes, times, n) ==
  UNION {[1..k -> {At(s, t) : s \in shapes, t \in times}] : k \in 0..n}

TimeOrdered(l) == \A i \in 1..(Len(l) - 1) : l[i].timestamp <= l[i + 1].timestamp

\* The time-ordered action lists of at most MaxLen actions of the given shapes
ActionLists(shapes, times) == {l \in ActionSeqs(shapes, times, MaxLen) : TimeOrdered(l)}

Matches(shapes, times, players) ==
  {[players |-> players, actions |-> l, duration |-> MaxT] : l \in ActionLists(shapes, times)}

WindowSizes == 1..MaxW

(***************************************************************************)
(* Spec: the windowing functions on matches of two players                 *)
(***************************************************************************)
WindowShapes ==
  { TrainVillager(1), TrainKnights(2, 2), TrainVillager(0), BuildCastle(1), Move(2) }

\* match.players: nobody, or players 1 and 2
PlayerLists == { <<>>, <<1, 2>> }

Init ==
  /\ match \in UNION { Matches(WindowShapes, 0..MaxT, ps) : ps \in PlayerLists }
  /\ postgame = NoPostgame
  /\ stream = NoStream
  /\ scan = NoScan
  /\ call = NoCall
  /\ ret = NoCall

\* A call is made when no call is pending; its arguments and its result are
\* recorded until the caller takes the result
Returns(c, r) ==
  /\ call = NoCall
  /\ call' = c
  /\ ret' = r
  /\ UNCHANGED <<match, postgame, stream, scan>>

ApmTimeseries ==
  \E w \in WindowSizes :
     Returns([op |-> "apm_timeseries", window_sec |-> w], apm_timeseries(match, w))

UnitCreatedTimeseries ==
  \E w \in WindowSizes, pat \in {pat_villager, pat_knight} :
     Returns([op |-> "unit_created_timeseries", pattern |-> pat, window_sec |-> w],
             unit_created_timeseries(match, pat, w))

ResourceSpendTimeseries(resources) ==
  \E w \in WindowSizes, r \in resources :
     Returns([op |-> "resource_spend_timeseries", resource |-> r, window_sec |-> w],
             resource_spend_timeseries(match, r, w))

ResourceBalanceTimeseries(resources, starts) ==
  \E w \in WindowSizes, r \in resources, s \in starts :
     Returns([op |-> "resource_balance_timeseries", resource |-> r, window_sec |-> w,
              start_at |-> s],
             resource_balance_timeseries(match, r, w, s))

TotalSpendTimeseries ==
  \E w \in WindowSizes, c \in BOOLEAN :
     Returns([op |-> "total_spend_timeseries", window_sec |-> w, cumulative |-> c],
             total_spend_timeseries(match, w, c))

\* A variant of the call that takes the actions off the match's list as
\* it reads them
TcIdleCumulativeTimeseriesConsuming(windows, bases, thresholds) ==
  \E w \in windows, b \in bases, g \in thresholds :
     /\ call = NoCall
     /\ call' = [op |-> "tc_idle_cumulative_timeseries", window_sec |-> w,
                 base_prod_time |-> b, gap_threshold |-> g]
     /\ ret' = tc_idle_cumulative_timeseries(match, pat_villager, w, b, g)
     /\ match' = [match EXCEPT !.actions = <<>>]
     /\ UNCHANGED <<postgame, stream, scan>>

TcIdleCumulativeTimeseries(windows, bases, thresholds) ==
  \E w \in windows, b \in bases, g \in thresholds :
     Returns([op |-> "tc_idle_cumulative_timeseries", window_sec |-> w,
              base_prod_time |-> b, gap_threshold |-> g],
             tc_idle_cumulative_timeseries(match, pat_villager, w, b, g))

ApproximateTotalBalanceTimeseries ==
  \E w \in WindowSizes :
     Returns([op |-> "approximate_total_balance_timeseries", window_sec |-> w],
             approximate_total_balance_timeseries(match, w, <<200, 200, 100, 200>>))

\* The caller takes the result of the pending call
Return ==
  /\ call # NoCall
  /\ call' = NoCall
  /\ ret' = NoCall
  /\ UNCHANGED <<match, postgame, stream, scan>>

Next ==
  \/ Return
  \/ ApmTimeseries
  \/ UnitCreatedTimeseries
  \/ ResourceSpendTimeseries({s_food, s_stone})
  \/ ResourceBalanceTimeseries({s_food, s_stone}, {0})
  \/ TotalSpendTimeseries
  \/ TcIdleCumulativeTimeseries(WindowSizes, {1}, {1})
  \/ ApproximateTotalBalanceTimeseries

Spec == Init /\ [][Next]_vars

(***************************************************************************)
(* SpecSpend: the estimated spend and balance, on matches with actions     *)
(* that have no delta and with resource names in and out of the set        *)
(***************************************************************************)
SpendShapes ==
  { TrainVillager(1), BuildCastle(1), Research(1, s_Feudal_Age),
    TrainTrebuchet(2), Move(2), Market(2, t_BUY, s_Food, 30) }

ResourceNames == { s_food, s_Food, s_oil }

\* per_player_totals of resource_cumulative_timeseries
PostgameTotals == { <<>>, [p \in {1} |-> <<100, 0, 0, 40>>] }

InitSpend ==
  /\ match \in Matches(SpendShapes, 0..MaxT, <<1, 2>>)
  /\ postgame = NoPostgame
  /\ stream = NoStream
  /\ scan = NoScan
  /\ call = NoCall
  /\ ret = NoCall

ResourceCumulativeTimeseries ==
  \E w \in WindowSizes, r \in ResourceNames, totals \in PostgameTotals :
     Returns([op |-> "resource_cumulative_timeseries", per_player_totals |-> totals,
              resource |-> r, window_sec |-> w],
             resource_cumulative_timeseries(match, totals, r, w))

NextSpend ==
  \/ Return
  \/ ResourceSpendTimeseries(ResourceNames)
  \/ ResourceBalanceTimeseries(ResourceNames, {0})
  \/ TotalSpendTimeseries
  \/ ResourceCumulativeTimeseries

SpecSpend == InitSpend /\ [][NextSpend]_vars

(***************************************************************************)
(* SpecPostgame: resource_totals_postgame on decoded postgame structures   *)
(***************************************************************************)
MaxBuckets == 2

s_Bob == <<"B","o","b">>

s_teams == <<"t","e","a","m","s">>

\* A dict with the given id fields and food and wood amounts
BucketDict(ids, food, wood) ==
  PyDict(ids \o << <<PyStr(flat_names[1][1]), PyInt(food)>>,
                   <<PyStr(flat_names[2][1]), PyInt(wood)>> >>)

\* The dicts found in the containers: without an id, with player_id 2, with
\* player_id 0, with a player name and an id, with player_id 1 and the
\* amounts under 'economy', and one that is no bucket
BucketDicts ==
  { BucketDict(<<>>, 100, 50),
    BucketDict(<< <<PyStr(id_keys[1]), PyInt(2)>> >>, 70, 30),
    BucketDict(<< <<PyStr(id_keys[1]), PyInt(0)>> >>, 10, 20),
    BucketDict(<< <<PyStr(id_keys[2]), PyStr(s_Bob)>>, <<PyStr(id_keys[3]), PyInt(3)>> >>, 5, 6),
    PyDict(<< <<PyStr(id_keys[1]), PyInt(1)>>,
              <<PyStr(k_economy), PyDict(<< <<PyStr(flat_names[1][2]), PyInt(9)>>,
                                            <<PyStr(flat_names[2][2]), PyInt(8)>> >>)>> >>),
    PyDict(<< <<PyStr(flat_names[1][1]), PyInt(0)>> >>) }

\* The lists of at most MaxBuckets dicts
BucketLists == UNION { [1..n -> BucketDicts] : n \in 0..MaxBuckets }

\* The dicts of one dict under a key: a number as str, a name, an int
KeyedBuckets ==
  { PyDict(<< <<k, b>> >>) : k \in {PyStr(<<"1">>), PyStr(s_Bob), PyInt(2)}, b \in BucketDicts }

PostgameData ==
  { PyDict(<< <<PyStr(key), c>> >>) :
      key \in {container_keys[1], s_teams},
      c \in {PyList(l) : l \in BucketLists} \cup KeyedBuckets }
    \cup { PyList(l) : l \in BucketLists }

SummaryPlayers ==
  { <<>>, << [number |-> PyInt(1), collected |-> <<40, 30, 20, 10>>],
             [number |-> PyNone, collected |-> <<1, 1, 1, 1>>] >> }

Postgames ==
  { [file |-> "ok", data |-> d, summary |-> s, players |-> ps] :
      d \in PostgameData, s \in {"ok", "error"}, ps \in SummaryPlayers }
    \cup { [file |-> "ioerror", data |-> PyNone, summary |-> "error", players |-> <<>>] }

InitPostgame ==
  /\ match = EmptyMatch
  /\ postgame \in Postgames
  /\ stream = NoStream
  /\ scan = NoScan
  /\ call = NoCall
  /\ ret = NoCall

ResourceTotalsPostgame ==
  Returns([op |-> "resource_totals_postgame"], resource_totals_postgame(postgame))

NextPostgame == Return \/ ResourceTotalsPostgame

SpecPostgame == InitPostgame /\ [][NextPostgame]_vars

(***************************************************************************)
(* SpecIdle: tc_idle_time on the villager productions of one player        *)
(***************************************************************************)
MaxIdleLen == 4

IdleTimes == { 0, 25, 52, 100 }

IdleShapes == { TrainVillager(1), TrainVillager(2), TrainKnights(1, 1) }

IdleWindows == { 10, 25 }

InitIdle ==
  /\ match \in { [players |-> <<1, 2>>, actions |-> l, duration |-> 100] :
                   l \in { a \in ActionSeqs(IdleShapes, IdleTimes, MaxIdleLen) : TimeOrdered(a) } }
  /\ postgame = NoPostgame
  /\ stream = NoStream
  /\ scan = NoScan
  /\ call = NoCall
  /\ ret = NoCall

TcIdleTime(bases, thresholds) ==
  \E b \in bases, g \in thresholds :
     Returns([op |-> "tc_idle_time", base_prod_time |-> b, gap_threshold |-> g],
             tc_idle_time(match, pat_villager, b, g))

NextIdle ==
  \/ Return
  \/ TcIdleTime({25}, {26, 27})
  \/ TcIdleCumulativeTimeseries(IdleWindows, {1}, {1, 26})

SpecIdle == InitIdle /\ [][NextIdle]_vars

(***************************************************************************)
(* SpecIdleMix: tc_idle_time on interleaved actions of two players, with   *)
(* unattributed actions, actions that are no production and productions    *)
(* of other units in between                                               *)
(***************************************************************************)
MaxMixLen == 3

\* A MOVE order given to a villager
MoveVillager(p) == Shape(p, t_MOVE, << <<PyStr(k_unit), PyStr(s_Villager)>> >>)

MixShapes ==
  { TrainVillager(1), TrainVillager(2), TrainVillager(0), MoveVillager(1), TrainKnights(1, 1) }

InitIdleMix ==
  /\ match \in { [players |-> <<1, 2>>, actions |-> l, duration |-> 100] :
                   l \in { a \in ActionSeqs(MixShapes, IdleTimes, MaxMixLen) : TimeOrdered(a) } }
  /\ postgame = NoPostgame
  /\ stream = NoStream
  /\ scan = NoScan
  /\ call = NoCall
  /\ ret = NoCall

NextIdleMix == Return \/ TcIdleTime({25, 60}, {26, 27})

SpecIdleMix == InitIdleMix /\ [][NextIdleMix]_vars

(***************************************************************************)
(* SpecEvents: important_events on action lists in any order               *)
(***************************************************************************)
EventShapes ==
  { Research(1, s_Feudal_Age), Research(2, s_Feudal_Age), BuildCastle(1), Research(1, s_Loom) }

InitEvents ==
  /\ match \in { [players |-> <<1, 2>>, actions |-> l, duration |-> MaxT] :
                   l \in ActionSeqs(EventShapes, 0..MaxT, MaxLen) }
  /\ postgame = NoPostgame
  /\ stream = NoStream
  /\ scan = NoScan
  /\ call = NoCall
  /\ ret = NoCall

ImportantEvents ==
  \E df \in important_events(match) : Returns([op |-> "important_events"], df)

NextEvents == Return \/ ImportantEvents

SpecEvents == InitEvents /\ [][NextEvents]_vars

(***************************************************************************)
(* SpecSync: sync_total_resources_timeseries, one turn of its record loop  *)
(* at a time                                                               *)
(***************************************************************************)
MaxRecords == 3

\* A player's value in a SYNC payload
PlayerRes(total) == PyDict(<< <<PyStr(k_total_res), PyInt(total)>> >>)

\* The payload (increment, checksum, pl) of a SYNC record
SyncPayload(pl) == PyTuple(<<PyInt(1), PyNone, pl>>)

\* A SYNC record of the given time with a total for each player of totals
Sync(t_ms, totals) ==
  Operation("SYNC",
            SyncPayload(PyDict(<< <<PyStr(k_current_time), PyInt(t_ms)>> >>
                               \o [i \in 1..Len(totals) |-> <<PyInt(totals[i][1]), PlayerRes(totals[i][2])>>])))

\* The records of the body: a record the reader fails on, a read that fails
\* with an I/O error, an ACTION, a SYNC
\* whose payload is a pair, a SYNC with an opaque payload, a SYNC without
\* current_time, a SYNC with a key that is no player number and a player
\* value that is no dict, and SYNC records of two players at 500, 1500 and
\* 3000 ms
StreamRecords ==
  { ReaderError("RuntimeError"),
    ReaderError("OSError"),
    Operation("ACTION", PyNone),
    Operation("SYNC", PyTuple(<<PyInt(1), PyNone>>)),
    Operation("SYNC", SyncPayload(PyStr(<<"b","l","o","b">>))),
    Operation("SYNC", SyncPayload(PyDict(<< <<PyInt(1), PlayerRes(5)>> >>))),
    Operation("SYNC", SyncPayload(PyDict(<< <<PyStr(k_current_time), PyInt(500)>>,
                                            <<PyStr(<<"x">>), PlayerRes(7)>>,
                                            <<PyInt(2), PyInt(3)>> >>))),
    Sync(500, << <<1, 10>> >>),
    Sync(1500, << <<1, 20>>, <<2, 30>> >>),
    Sync(3000, << <<1, 40>> >>) }

\* The replay files: one that cannot be opened, and the bodies of at most
\* MaxRecords records
Streams ==
  { [file |-> "ioerror", records |-> <<>>] }
    \cup { [file |-> "ok", records |-> r] :
             r \in UNION { [1..n -> StreamRecords] : n \in 0..MaxRecords } }

InitSync ==
  /\ match = EmptyMatch
  /\ postgame = NoPostgame
  /\ stream \in Streams
  /\ scan = NoScan
  /\ call = NoCall
  /\ ret = NoCall

\* The call, up to the loop: open(path, 'rb') and fast.start(fh)
SyncOpen ==
  /\ call = NoCall
  /\ \E w \in WindowSizes :
        call' = [op |-> "sync_total_resources_timeseries", window_sec |-> w]
  /\ IF stream.file = "ok"
     THEN scan' = ScanStart /\ ret' = NoCall
     ELSE /\ scan' = [ScanStart EXCEPT !.pc = "raised", !.exc = "OSError"]
          /\ ret' = Raise("OSError", "open")
  /\ UNCHANGED <<match, postgame, stream>>

\* One turn of the while loop
SyncOperation ==
  /\ scan.pc = "loop"
  /\ scan' = sync_operation(scan, stream.records)
  /\ ret' = IF scan'.pc = "raised" THEN Raise(scan'.exc, "sync") ELSE ret
  /\ UNCHANGED <<match, postgame, stream, call>>

\* The statements after the loop, and the return
SyncResample ==
  /\ scan.pc = "break"
  /\ ret' = sync_resample(scan, call.window_sec)
  /\ scan' = [scan EXCEPT !.pc = "done"]
  /\ UNCHANGED <<match, postgame, stream, call>>

\* The caller takes the result or the exception
SyncReturn ==
  /\ scan.pc \in {"done", "raised"}
  /\ scan' = NoScan
  /\ call' = NoCall
  /\ ret' = NoCall
  /\ UNCHANGED <<match, postgame, stream>>

NextSync == SyncOpen \/ SyncOperation \/ SyncResample \/ SyncReturn

SpecSync == InitSync /\ [][NextSync]_vars

\* The interpreter runs the function on once it is called
SpecSyncFair == SpecSync /\ WF_vars(SyncOperation) /\ WF_vars(SyncResample)

(***************************************************************************)
(* SpecCumulative: resource_cumulative_timeseries on matches of every      *)
(* duration, with and without postgame totals                              *)
(***************************************************************************)
MaxDuration == 4

\* per_player_totals: none, of player 1 alone, of both players, player 2
\* with a total of exactly 0 of each resource
CumulativeTotals ==
  { <<>>,
    [p \in {1} |-> <<100, 0, 0, 40>>],
    [p \in {1, 2} |-> IF p = 1 THEN <<100, 0, 0, 40>> ELSE <<60, 30, 0, 0>>],
    [p \in {1, 2} |-> IF p = 1 THEN <<7, 5, 3, 1>> ELSE <<0, 0, 0, 0>>] }

InitCumulative ==
  /\ match \in { [players |-> ps, actions |-> <<>>, duration |-> d] :
                   ps \in { <<>>, <<1>>, <<1, 2>> }, d \in 0..MaxDuration }
  /\ postgame = NoPostgame
  /\ stream = NoStream
  /\ scan = NoScan
  /\ call = NoCall
  /\ ret = NoCall

CumulativeTimeseries ==
  \E w \in WindowSizes, r \in ResourceNames \cup {s_stone}, totals \in CumulativeTotals :
     Returns([op |-> "resource_cumulative_timeseries", per_player_totals |-> totals,
              resource |-> r, window_sec |-> w],
             resource_cumulative_timeseries(match, totals, r, w))

NextCumulative == Return \/ CumulativeTimeseries

SpecCumulative == InitCumulative /\ [][NextCumulative]_vars

(***************************************************************************)
(* SpecCount: payload_count on payloads with count keys                    *)
(***************************************************************************)
MaxCountKeys == 2

\* The values of a count key: zero, negative, positive, a positive number
\* as str, a str that is no number, None
CountValues == { PyInt(0), PyInt(-2), PyInt(3), PyStr(<<"5">>), PyStr(<<"x">>), PyNone }

\* The payloads with at most MaxCountKeys of the count keys, in any order
CountPayloads ==
  { p \in UNION { [1..n -> {<<PyStr(count_keys[k]), v>> : k \in 1..Len(count_keys), v \in CountValues}] :
                   n \in 0..MaxCountKeys } :
      \A i, j \in 1..Len(p) : i # j => p[i][1] # p[j][1] }

InitCount ==
  /\ match = EmptyMatch
  /\ postgame = NoPostgame
  /\ stream = NoStream
  /\ scan = NoScan
  /\ call = NoCall
  /\ ret = NoCall

PayloadCount ==
  \E payload \in CountPayloads :
     Returns([op |-> "payload_count", payload |-> payload], payload_count(payload))

NextCount == Return \/ PayloadCount

SpecCount == InitCount /\ [][NextCount]_vars

(***************************************************************************)
(* SpecMatches: payload_matches on nested payloads                         *)
(***************************************************************************)
MaxNest == 2

k_x == <<"x">>

k_villager == <<"v","i","l","l","a","g","e","r">>

\* What a payload holds that is no dict: strs, an int, None, a unit object
\* with a name, a list of names
MatchLeaves ==
  { PyStr(s_Villager), PyStr(s_Knight), PyInt(5), PyNone,
    PyObj(<< <<PyStr(k_name), PyStr(s_Villager)>> >>),
    PyList(<<PyStr(s_Villager)>>) }

MatchKeys == { k_unit, k_name, k_item, k_x, k_villager }

RECURSIVE Nested(_)
\* The values with at most n dicts around a leaf
Nested(n) ==
  IF n = 0 THEN MatchLeaves
  ELSE MatchLeaves \cup { PyDict(<< <<PyStr(k), v>> >>) : k \in MatchKeys, v \in Nested(n - 1) }

\* Payloads of one item nested up to MaxNest dicts deep, and of two items
MatchPayloads ==
  { << <<PyStr(k), v>> >> : k \in MatchKeys, v \in Nested(MaxNest) }
    \cup UNION { { << <<PyStr(k1), v1>>, <<PyStr(k2), v2>> >> :
                     v1 \in Nested(1), k2 \in MatchKeys \ {k1}, v2 \in MatchLeaves } :
                   k1 \in MatchKeys }

InitMatches ==
  /\ match = EmptyMatch
  /\ postgame = NoPostgame
  /\ stream = NoStream
  /\ scan = NoScan
  /\ call = NoCall
  /\ ret = NoCall

PayloadMatches ==
  \E payload \in MatchPayloads, pat \in {pat_villager, pat_knight} :
     Returns([op |-> "payload_matches", payload |-> payload, pattern |-> pat],
             payload_matches(payload, pat))

NextMatches == Return \/ PayloadMatches

SpecMatches == InitMatches /\ [][NextMatches]_vars

(***************************************************************************)
(* SpecDelta: the resource delta of one action                             *)
(***************************************************************************)
t_MULTIQUEUE == <<"M","U","L","T","I","Q","U","E","U","E">>

DeltaTypes == { t_DE_QUEUE, t_TRAIN, t_MULTIQUEUE, t_BUILD, t_BUY, t_SELL, t_MOVE }

\* What the payload names: nothing, a unit under 'unit' or under 'item', a
\* unit that has no cost, a resource
DeltaNames ==
  { <<>>,
    << <<PyStr(k_unit), PyStr(s_Villager)>> >>,
    << <<PyStr(k_unit), PyStr(s_Knight)>> >>,
    << <<PyStr(k_unit), PyStr(s_Trebuchet)>> >>,
    << <<PyStr(k_item), PyStr(s_Villager)>> >>,
    << <<PyStr(k_resource), PyStr(s_Food)>> >>,
    << <<PyStr(k_resource), PyStr(s_wood)>> >>,
    << <<PyStr(k_resource), PyStr(s_oil)>> >> }

\* The repeat count or the traded amount of the payload
DeltaCounts ==
  { <<>>,
    << <<PyStr(k_amount), PyInt(3)>> >>,
    << <<PyStr(k_amount), PyInt(-2)>> >>,
    << <<PyStr(k_amount), PyInt(0)>> >>,
    << <<PyStr(k_amount), PyStr(<<"5">>)>> >>,
    << <<PyStr(k_amount), PyStr(<<"x">>)>> >>,
    << <<PyStr(k_count), PyInt(2)>> >>,
    << <<PyStr(k_count), PyInt(2)>>, <<PyStr(k_amount), PyInt(3)>> >> }

DeltaActions ==
  { At(Shape(1, type, name \o count), 0) :
      type \in DeltaTypes, name \in DeltaNames, count \in DeltaCounts }

InitDelta ==
  /\ match = EmptyMatch
  /\ postgame = NoPostgame
  /\ stream = NoStream
  /\ scan = NoScan
  /\ call = NoCall
  /\ ret = NoCall

ResourceDeltaForAction ==
  \E act \in DeltaActions :
     Returns([op |-> "resource_delta_for_action", act |-> act],
             resource_delta_for_action(act))

NextDelta == Return \/ ResourceDeltaForAction

SpecDelta == InitDelta /\ [][NextDelta]_vars

(***************************************************************************)
(* SpecTally: the tally of the units created and its series                *)
(***************************************************************************)
TallyShapes ==
  { TrainVillager(1), TrainVillager(2), TrainKnights(2, 2), TrainVillager(0), Move(1) }

InitTally ==
  /\ match \in Matches(TallyShapes, 0..MaxT, <<1, 2>>)
  /\ postgame = NoPostgame
  /\ stream = NoStream
  /\ scan = NoScan
  /\ call = NoCall
  /\ ret = NoCall

VillagerCounts ==
  \E pat \in {pat_villager, pat_knight} :
     Returns([op |-> "villager_counts", pattern |-> pat], villager_counts(match, pat))

NextTally == Return \/ VillagerCounts \/ UnitCreatedTimeseries

SpecTally == InitTally /\ [][NextTally]_vars

(***************************************************************************)
(* SpecPure: any sequence of calls of the windowing functions on one match *)
(***************************************************************************)
PureShapes == { TrainVillager(1), TrainKnights(2, 2), BuildCastle(1) }

InitPure ==
  /\ match \in Matches(PureShapes, 0..MaxT, <<1, 2>>)
  /\ postgame = NoPostgame
  /\ stream = NoStream
  /\ scan = NoScan
  /\ call = NoCall
  /\ ret = NoCall

NextPure ==
  \/ Return
  \/ ApmTimeseries
  \/ UnitCreatedTimeseries
  \/ ResourceSpendTimeseries({s_food, s_stone})
  \/ ResourceBalanceTimeseries({s_food, s_stone}, {0})
  \/ TotalSpendTimeseries
  \/ TcIdleCumulativeTimeseries(WindowSizes, {1}, {1})
  \/ ApproximateTotalBalanceTimeseries

SpecPure == InitPure /\ [][NextPure]_vars

(***************************************************************************)
(* SpecCosts: the cost lookups                                             *)
(***************************************************************************)
s_Elite_ == <<"E","l","i","t","e"," ">>

\* The ways a caller may spell the table key k
Spellings(k) ==
  { k, str_upper(k), <<char_upper(k[1])>> \o Tail(k), <<" ">> \o k \o <<" ">> }

CostQueries(table) ==
  UNION { Spellings(table[i][1]) \cup { s_Elite_ \o table[i][1] } : i \in 1..Len(table) }
    \cup { s_Trebuchet }

InitCosts ==
  /\ match = EmptyMatch
  /\ postgame = NoPostgame
  /\ stream = NoStream
  /\ scan = NoScan
  /\ call = NoCall
  /\ ret = NoCall

UnitCost ==
  \E name \in CostQueries(UNIT_COSTS) :
     Returns([op |-> "unit_cost", name |-> name], unit_cost(name))

BuildingCost ==
  \E name \in CostQueries(BUILDING_COSTS) :
     Returns([op |-> "building_cost", name |-> name], building_cost(name))

TechCost ==
  \E name \in CostQueries(TECH_COSTS) :
     Returns([op |-> "tech_cost", name |-> name], tech_cost(name))

NextCosts == Return \/ UnitCost \/ BuildingCost \/ TechCost

SpecCosts == InitCosts /\ [][NextCosts]_vars

(***************************************************************************)
(* Claims                                                                  *)
(***************************************************************************)

\* C4: for every key k of the unit cost table, unit_cost of k in any letter
\* case or with surrounding whitespace, and unit_cost of the longer name
\* "Elite " + k, is the cost tuple the table stores for k.
C4_CostLookupInvariance ==
  call.op = "unit_cost" =>
    \A i \in 1..Len(UNIT_COSTS) :
       call.name \in Spellings(UNIT_COSTS[i][1]) \cup { s_Elite_ \o UNIT_COSTS[i][1] }
         => ret = UNIT_COSTS[i][2]

(***************************************************************************)
(* Claims about the windowing functions (Spec)                             *)
(***************************************************************************)
WindowingOps ==
  { "apm_timeseries", "unit_created_timeseries", "resource_spend_timeseries",
    "resource_balance_timeseries", "total_spend_timeseries" }

\* Whether action a contributes a row to the result of the call c
Contributes(c, a) ==
  /\ a.player # 0
  /\ CASE c.op = "apm_timeseries" -> TRUE
        [] c.op = "unit_created_timeseries" ->
             is_prod_event(a.type) /\ payload_matches(a.payload, c.pattern)
        [] c.op = "resource_spend_timeseries" ->
             LET d == resource_delta_for_action(a)
             IN d.kind = "delta" /\ d.d[resource_index(c.resource)] < 0
        [] c.op = "resource_balance_timeseries" ->
             resource_delta_for_action(a).kind = "delta"
        [] c.op = "total_spend_timeseries" ->
             LET d == resource_delta_for_action(a)
             IN d.kind = "delta" /\ \E k \in 1..4 : d.d[k] < 0
        [] OTHER -> FALSE

\* The timestamps of the actions of the match that contribute to the call
ContributingTimes(c) ==
  { match.actions[i].timestamp :
      i \in { k \in 1..Len(match.actions) : Contributes(c, match.actions[k]) } }

\* ceil(t / w): the least n with n * w >= t
Ceil(t, w) == CHOOSE n \in 0..t : n * w >= t /\ (n = 0 \/ (n - 1) * w < t)

\* C1: for a call of one of the five windowing functions on a match with at
\* least one contributing action, with window size w, the result is a frame
\* whose index is 0, w, 2w, ... of length ceil(max_timestamp / w),
\* max_timestamp the largest timestamp of the contributing actions, and every
\* player's series has that length.
C1_SharedWindowIndex ==
  (call.op \in WindowingOps /\ ContributingTimes(call) # {}) =>
    LET n == Ceil(SetMax(ContributingTimes(call)), call.window_sec)
    IN /\ ret.kind = "frame"
       /\ ret.index = [j \in 1..n |-> (j - 1) * call.window_sec]
       /\ DOMAIN ret.cols # {}
       /\ \A pid \in DOMAIN ret.cols : Len(ret.cols[pid]) = n

\* Two players contribute, the later action lies in the second window, and
\* both series have two windows
C1_Witness ==
  /\ call.op = "resource_balance_timeseries"
  /\ call.window_sec = 2
  /\ SetMax(ContributingTimes(call) \cup {0}) = 3
  /\ ret.kind = "frame"
  /\ DOMAIN ret.cols = {1, 2}
  /\ ret.index = <<0, 2>>

\* The player and the timestamps of the actions that have a player, when
\* they are k >= 1 actions of one player inside the window of number j
OnePlayerOneWindow(p, j, w) ==
  LET mine == { i \in 1..Len(match.actions) : match.actions[i].player # 0 }
  IN /\ mine # {}
     /\ \A i \in mine : /\ match.actions[i].player = p
                         /\ match.actions[i].timestamp \div w = j

\* C2: when the player-attributed actions of the match are k >= 1 actions of
\* one player p, all inside the window [j*w, (j+1)*w), apm_timeseries with
\* window size w reports for p, at the window starting at j*w, k * 60 / w.
C2_ApmOfOneWindow ==
  call.op = "apm_timeseries" =>
    \A p \in 1..2, j \in 0..MaxT :
       OnePlayerOneWindow(p, j, call.window_sec) =>
         LET k == Cardinality({ i \in 1..Len(match.actions) : match.actions[i].player # 0 })
         IN /\ ret.kind = "frame"
            /\ p \in DOMAIN ret.cols
            /\ \E i \in 1..Len(ret.index) :
                  /\ ret.index[i] = j * call.window_sec
                  /\ ret.cols[p][i] = <<k * 60, call.window_sec>>

\* The start of the window of width w that holds t: floor(t / w) * w
WindowOf(t, w) == (t \div w) * w

\* The actions of player p that contribute to the call and whose window
\* starts at s
InWindow(p, s) ==
  SelectSeq(match.actions,
            LAMBDA a : /\ Contributes(call, a)
                       /\ a.player = p
                       /\ WindowOf(a.timestamp, call.window_sec) = s)

FloorWindows ==
  /\ ret.kind = "frame"
  /\ \A t \in ContributingTimes(call) :
        \E j \in 1..Len(ret.index) : ret.index[j] = WindowOf(t, call.window_sec)
  /\ call.op = "apm_timeseries" =>
        \A p \in DOMAIN ret.cols : \A j \in 1..Len(ret.index) :
           ret.cols[p][j] = <<60 * Len(InWindow(p, ret.index[j])), call.window_sec>>
  /\ call.op = "unit_created_timeseries" =>
        \A p \in DOMAIN ret.cols : \A j \in 1..Len(ret.index) :
           LET acts == InWindow(p, ret.index[j])
           IN ret.cols[p][j] = SeqSum([i \in 1..Len(acts) |-> payload_count(acts[i].payload)])

\* C23: in the five windowing functions every contributing action with
\* timestamp t is aggregated into exactly one window, the one that starts
\* at floor(t / window_sec) * window_sec, also when t is the largest
\* timestamp and when t is a multiple of window_sec: that window is in the
\* index, and the value of apm_timeseries and of unit_created_timeseries at
\* a window is made of the actions whose window it is.
C23_FloorWindow ==
  (call.op \in WindowingOps /\ ContributingTimes(call) # {}) => FloorWindows

\* The same, when the largest contributing timestamp is no multiple of
\* window_sec
C23_FloorWindowOffTheLastEdge ==
  (/\ call.op \in WindowingOps
   /\ ContributingTimes(call) # {}
   /\ SetMax(ContributingTimes(call)) % call.window_sec # 0) => FloorWindows

\* The value of player p at the window that starts at s in the frame f, 0
\* when f has no such player or window
ValueAt(f, p, s) ==
  IF f.kind = "frame" /\ p \in DOMAIN f.cols /\ \E j \in 1..Len(f.index) : f.index[j] = s
  THEN f.cols[p][CHOOSE j \in 1..Len(f.index) : f.index[j] = s]
  ELSE 0

\* The sum over the four resources of the spend of player p at the window
\* that starts at s
SpendOfResources(p, s) ==
  ValueAt(resource_spend_timeseries(match, s_food, call.window_sec), p, s)
    + ValueAt(resource_spend_timeseries(match, s_wood, call.window_sec), p, s)
    + ValueAt(resource_spend_timeseries(match, s_gold, call.window_sec), p, s)
    + ValueAt(resource_spend_timeseries(match, s_stone, call.window_sec), p, s)

TotalIsSumOfResources ==
  \A p \in 1..2 : \A s \in 0..MaxT : ValueAt(ret, p, s) = SpendOfResources(p, s)

CumulativeIsRunningSum ==
  LET each == total_spend_timeseries(match, call.window_sec, FALSE)
  IN /\ ret.kind = "frame"
     /\ ret.index = each.index
     /\ DOMAIN ret.cols = DOMAIN each.cols
     /\ \A p \in DOMAIN ret.cols :
           /\ \A j \in 1..Len(ret.index) : ret.cols[p][j] = SeqSum(SubSeq(each.cols[p], 1, j))
           /\ \A j \in 1..(Len(ret.index) - 1) : ret.cols[p][j] <= ret.cols[p][j + 1]

\* C29: with cumulative = false the value of total_spend_timeseries for
\* every player at every window start is the sum over the four resources
\* of the player's value at that window start in resource_spend_timeseries
\* (a missing player column or window counting as 0); with cumulative =
\* true the series is the running sum of those per-window totals and never
\* decreases.
C29_TotalIsSumOfResources ==
  call.op = "total_spend_timeseries" =>
    IF call.cumulative THEN CumulativeIsRunningSum ELSE TotalIsSumOfResources

\* The second half alone: the cumulative series is the running sum of the
\* series with cumulative = false
C29_CumulativeIsRunningSum ==
  (call.op = "total_spend_timeseries" /\ call.cumulative) => CumulativeIsRunningSum

\* What the call c returns on the match m
EngineResult(c, m) ==
  CASE c.op = "apm_timeseries" -> apm_timeseries(m, c.window_sec)
    [] c.op = "unit_created_timeseries" -> unit_created_timeseries(m, c.pattern, c.window_sec)
    [] c.op = "resource_spend_timeseries" ->
         resource_spend_timeseries(m, c.resource, c.window_sec)
    [] c.op = "resource_balance_timeseries" ->
         resource_balance_timeseries(m, c.resource, c.window_sec, c.start_at)
    [] c.op = "total_spend_timeseries" -> total_spend_timeseries(m, c.window_sec, c.cumulative)
    [] c.op = "tc_idle_cumulative_timeseries" ->
         tc_idle_cumulative_timeseries(m, pat_villager, c.window_sec, c.base_prod_time,
                                       c.gap_threshold)
    [] c.op = "approximate_total_balance_timeseries" ->
         approximate_total_balance_timeseries(m, c.window_sec, <<200, 200, 100, 200>>)

C7_EmptyActionsNoData ==
  (call # NoCall /\ match.actions = <<>>) => ret = EmptyFrame

\* The cumulative idle series was asked for a match of two players without
\* actions
C7_Witness ==
  /\ match.actions = <<>>
  /\ match.players = <<1, 2>>
  /\ call.op = "tc_idle_cumulative_timeseries"
  /\ ret = EmptyFrame

(***************************************************************************)
(* Claims about the estimated spend and balance (SpecSpend)                *)
(***************************************************************************)
NoMarket ==
  \A i \in 1..Len(match.actions) : match.actions[i].type \notin {t_BUY, t_SELL}

\* The running sum of the sequence s up to and including its element j
SumUpTo(s, j) == SeqSum([i \in 1..j |-> s[i]])

\* C5: on a match without BUY and SELL actions, the result of
\* resource_balance_timeseries(match, r, w, s) has the players and the
\* windows of resource_spend_timeseries(match, r, w), and its value for a
\* player at a window is s minus the sum of the player's spend values up to
\* and including that window.
C5_BalanceIsStartMinusSpend ==
  (/\ call.op = "resource_balance_timeseries"
   /\ call.resource \in {s_food, s_wood, s_gold, s_stone}
   /\ NoMarket) =>
    LET spend == resource_spend_timeseries(match, call.resource, call.window_sec)
    IN /\ ret.kind = "frame"
       /\ spend.kind = "frame"
       /\ ret.index = spend.index
       /\ DOMAIN ret.cols = DOMAIN spend.cols
       /\ \A pid \in DOMAIN ret.cols :
             \A j \in 1..Len(ret.index) :
                ret.cols[pid][j] = call.start_at - SumUpTo(spend.cols[pid], j)

ClosedSet == { s_food, s_wood, s_gold, s_stone }

ResourceOps ==
  { "resource_spend_timeseries", "resource_balance_timeseries",
    "resource_cumulative_timeseries" }

InvalidArgument == Raise("ValueError", msg_unsupported)

\* C9 as stated: the three functions raise the invalid-argument error for
\* every resource name outside {food, wood, gold, stone}, and never for a
\* name inside it.
C9_ClosedSetAsStated ==
  call.op \in ResourceOps =>
    (ret = InvalidArgument <=> call.resource \notin ClosedSet)

\* C9, on the lower-cased name: the three functions raise the invalid-argument error exactly
\* for the resource names whose lower-cased form is outside {food, wood,
\* gold, stone}, whatever the match contains; a name that differs from a
\* member of the set in letter case only is accepted.
C9_ClosedSetUpToCase ==
  call.op \in ResourceOps =>
    (ret = InvalidArgument <=> str_lower(call.resource) \notin ClosedSet)

\* 'oil' is refused on a match without actions
C9_Witness ==
  /\ call.op = "resource_spend_timeseries"
  /\ call.resource = s_oil
  /\ match.actions = <<>>
  /\ ret = InvalidArgument

\* s without its element i
Without(s, i) == SubSeq(s, 1, i - 1) \o SubSeq(s, i + 1, Len(s))

\* The name the action a gives for what it trains, builds or researches
NameOf(a) ==
  py_str(py_or(dict_get(a.payload, k_unit),
         py_or(dict_get(a.payload, k_building), dict_get(a.payload, k_technology))))

\* The action a matches none of the production, build, research and market
\* shapes, or the cost tables do not resolve its name
WithoutDelta(a) ==
  \/ a.type \notin unit_types \cup {t_BUILD, t_RESEARCH, t_BUY, t_SELL}
  \/ a.type \in unit_types /\ unit_cost(NameOf(a)) = NoCost
  \/ a.type = t_BUILD /\ building_cost(NameOf(a)) = NoCost
  \/ a.type = t_RESEARCH /\ tech_cost(NameOf(a)) = NoCost

\* What the call c returns on the match m
ResultOn(c, m) ==
  CASE c.op = "resource_spend_timeseries" ->
         resource_spend_timeseries(m, c.resource, c.window_sec)
    [] c.op = "resource_balance_timeseries" ->
         resource_balance_timeseries(m, c.resource, c.window_sec, c.start_at)
    [] c.op = "total_spend_timeseries" ->
         total_spend_timeseries(m, c.window_sec, c.cumulative)

\* C10: the result of resource_spend_timeseries, resource_balance_timeseries
\* and total_spend_timeseries is the result on the same match with any one
\* action removed that matches no shape or whose name the cost tables do not
\* resolve.
C10_NoDeltaActionsExcluded ==
  call.op \in {"resource_spend_timeseries", "resource_balance_timeseries",
               "total_spend_timeseries"} =>
    \A i \in 1..Len(match.actions) :
       WithoutDelta(match.actions[i]) =>
         ret = ResultOn(call, [match EXCEPT !.actions = Without(match.actions, i)])

\* A trebuchet, which the unit table does not know, is trained after the
\* last action that has a cost, and the balance ends at that action's window
C10_Witness ==
  /\ call.op = "resource_balance_timeseries"
  /\ call.window_sec = 1
  /\ Len(match.actions) = 2
  /\ match.actions[1] = At(TrainVillager(1), 1)
  /\ match.actions[2] = At(TrainTrebuchet(2), 3)
  /\ ret.kind = "frame"
  /\ ret.index = <<0>>

(***************************************************************************)
(* Claims about the postgame totals (SpecPostgame)                         *)
(***************************************************************************)
\* The explicit player ids of the dict d: the ints in its id fields
ExplicitIds(d) ==
  { dict_get(d, id_keys[k]).v :
      k \in { n \in 1..Len(id_keys) : dict_get(d, id_keys[n]).tag = "int" } }

\* The list of dicts of the postgame structure: the structure itself or
\* the list under its one key
ListedDicts ==
  LET data == postgame.data
  IN IF data.tag = "list" THEN data.v
     ELSE IF data.tag = "dict" /\ Len(data.v) = 1 /\ data.v[1][2].tag = "list"
     THEN data.v[1][2].v
     ELSE <<>>

\* The positions of the list whose dict is a resource bucket with an
\* explicit player id
WithExplicitId ==
  { i \in 1..Len(ListedDicts) :
      /\ norm_bucket(ListedDicts[i].v).kind = "bucket"
      /\ ExplicitIds(ListedDicts[i].v) # {} }

\* The bucket at position i of the list is in the result under an explicit
\* id of its dict
RecordedUnderExplicitId(i) ==
  /\ ret.kind = "dict"
  /\ \E id \in ExplicitIds(ListedDicts[i].v) :
        /\ id \in DOMAIN ret.d
        /\ ret.d[id] = norm_bucket(ListedDicts[i].v).v

\* If a bucket is in the result under its explicit id, every key of the
\* result is an explicit id of some bucket: none is a position
C8_NoPositionalBesideExplicit ==
  (call.op = "resource_totals_postgame" /\ \E i \in WithExplicitId : RecordedUnderExplicitId(i))
    => DOMAIN ret.d \subseteq UNION { ExplicitIds(ListedDicts[i].v) : i \in WithExplicitId }

\* C8: every resource bucket of a list that carries an explicit player id
\* is in the result of resource_totals_postgame under that id, whatever its
\* position in the list; and when a bucket is recorded under its explicit
\* id the result has no positionally numbered entry.
C8_ExplicitIdPrecedence ==
  call.op = "resource_totals_postgame" =>
    /\ \A i \in WithExplicitId : RecordedUnderExplicitId(i)
    /\ C8_NoPositionalBesideExplicit

\* C11: resource_totals_postgame returns a mapping and raises no error,
\* whatever the decoded postgame structure is: dicts and lists in any
\* nesting, dicts with keys that are not strings, values that are not
\* numbers, id fields that are missing or do not parse.
C11_PostgameNeverRaises ==
  call.op = "resource_totals_postgame" => ret.kind = "dict"

\* The postgame structure is a list of dicts, or a dict with the list
\* under its one key, no dict of the list has an id field, and the summary
\* yields no totals
OnlyPositional ==
  /\ call.op = "resource_totals_postgame"
  /\ postgame.file = "ok"
  /\ postgame.summary = "error" \/ postgame.players = <<>>
  /\ postgame.data.tag = "list" \/ postgame.data.v[1][2].tag = "list"
  /\ \A i \in 1..Len(ListedDicts) :
        \A k \in 1..Len(id_keys) : ~has_key(ListedDicts[i].v, id_keys[k])

\* The buckets of the list, in the order they are discovered
DiscoveredBuckets ==
  LET found == SelectSeq(ListedDicts, LAMBDA d : norm_bucket(d.v).kind = "bucket")
  IN [i \in 1..Len(found) |-> norm_bucket(found[i].v).v]

\* C18: when no dict of the postgame structure has a player id and the
\* summary yields nothing, resource_totals_postgame numbers the buckets in
\* the order it discovers them: the first is player 1, the second player
\* 2, and so on, none lost and none overwritten.
C18_PositionalInDiscoveryOrder ==
  OnlyPositional => ret = Mapping(DiscoveredBuckets)

\* The same, on the lists in which every dict is a bucket
C18_PositionalWhenAllBuckets ==
  (OnlyPositional /\ Len(DiscoveredBuckets) = Len(ListedDicts))
    => ret = Mapping(DiscoveredBuckets)

\* C14: when the replay file cannot be opened or read, the I/O error
\* reaches the caller of resource_totals_postgame: the function does not
\* return a mapping in its place.
C14_IOErrorPropagates ==
  (call.op = "resource_totals_postgame" /\ postgame.file = "ioerror") => ret.kind = "error"

(***************************************************************************)
(* Claims about the idle time (SpecIdle)                                   *)
(***************************************************************************)
\* The timestamps of the villager productions of player p, in order
VillagerTimes(p) ==
  LET mine == SelectSeq(match.actions,
                        LAMBDA a : /\ a.player = p
                                   /\ is_prod_event(a.type)
                                   /\ payload_matches(a.payload, pat_villager))
  IN [i \in 1..Len(mine) |-> mine[i].timestamp]

IdleExample ==
  /\ call.op = "tc_idle_time"
  /\ call.base_prod_time = 25
  /\ call.gap_threshold = 27
  /\ VillagerTimes(1) = <<0, 25, 52, 100>>

\* C3 as stated: for villager productions of one player at 0, 25, 52 and
\* 100, base_prod_time 25 and gap_threshold 27, tc_idle_time returns 25 for
\* the player.
C3_IdleIs25 ==
  IdleExample => (ret.kind = "dict" /\ ret.d[1] = 25)

\* C3, with the threshold applied as a strict bound: for villager productions of one player at 0, 25, 52 and
\* 100, base_prod_time 25 and gap_threshold 27, tc_idle_time returns 23 for
\* the player: the gap 25 -> 52 is 27, which does not exceed gap_threshold
\* and adds nothing, and the gap 52 -> 100 adds 48 - 25 = 23.
C3_IdleIs23 ==
  IdleExample => (ret.kind = "dict" /\ ret.d[1] = 23)

C3_Witness ==
  /\ IdleExample
  /\ Len(match.actions) = 4
  /\ ret.kind = "dict"
  /\ ret.d[1] = 23

\* The idle time of the consecutive pairs of the timestamps ts: the part
\* beyond base of every gap that exceeds threshold
IdleOfGaps(ts, base, threshold) ==
  SeqSum([i \in 1..(Len(ts) - 1) |->
            LET gap == ts[i + 1] - ts[i]
            IN IF gap > threshold THEN max0(gap - base) ELSE 0])

\* C22: on any interleaving of the actions of several players, the idle
\* time tc_idle_time returns for player p is the sum, over the consecutive
\* pairs of p's own matched villager productions, of max(0, gap -
\* base_prod_time) for the pairs whose gap strictly exceeds gap_threshold;
\* p's first production adds nothing, and the actions of other players,
\* unattributed actions, actions that are no production and payloads that
\* do not match neither add idle time for p nor reset p's previous event.
C22_IdleOfOwnGaps ==
  call.op = "tc_idle_time" =>
    /\ ret.kind = "dict"
    /\ DOMAIN ret.d = {1, 2}
    /\ \A p \in DOMAIN ret.d :
          ret.d[p] = IdleOfGaps(VillagerTimes(p), call.base_prod_time, call.gap_threshold)

\* Player 1 trains villagers at 0 and 52 with a villager of player 2 at 25
\* in between: its idle time is 52 - 25 = 27, and player 2 has none
C22_Witness ==
  /\ call.op = "tc_idle_time"
  /\ call.base_prod_time = 25
  /\ call.gap_threshold = 27
  /\ Len(match.actions) = 3
  /\ VillagerTimes(1) = <<0, 52>>
  /\ VillagerTimes(2) = <<25>>
  /\ ret.kind = "dict"
  /\ ret.d[1] = 27
  /\ ret.d[2] = 0

\* The (time, increment) pairs the call collects for player p
IdleIncrements(p) ==
  idle_loop(idle_start(match), match.actions, pat_villager, call.base_prod_time,
            call.gap_threshold).incs[p]

\* C15: in the result of tc_idle_cumulative_timeseries the series of every
\* player never decreases from a window to the next, is 0 at every window
\* that starts before the player's first increment, and from the first
\* window that starts at or after the player's last increment on stays at
\* the sum of the player's increments, up to the last window of the index.
C15_IdleCumulativeShape ==
  (call.op = "tc_idle_cumulative_timeseries" /\ ret.kind = "frame") =>
    \A p \in DOMAIN ret.cols :
       LET col  == ret.cols[p]
           incs == IdleIncrements(p)
       IN /\ Len(col) = Len(ret.index)
          /\ incs # <<>>
          /\ \A j \in 1..(Len(col) - 1) : col[j] <= col[j + 1]
          /\ \A j \in 1..Len(col) :
                /\ ret.index[j] < incs[1][1] => col[j] = 0
                /\ ret.index[j] >= incs[Len(incs)][1]
                     => col[j] = SeqSum([i \in 1..Len(incs) |-> incs[i][2]])

\* Player 1 idles before its villagers at 25, 52 and 100: its series is 0,
\* rises at 25, stays flat, and rises again in the window after 52
C15_Witness ==
  /\ call.op = "tc_idle_cumulative_timeseries"
  /\ call.window_sec = 25
  /\ ret.kind = "frame"
  /\ DOMAIN ret.cols = {1}
  /\ ret.index = <<0, 25, 50, 75>>
  /\ ret.cols[1] = <<0, 24, 24, 50>>

\* What tc_idle_time returns for the match and the parameters of the call
IdleTimeOfCall ==
  tc_idle_time(match, pat_villager, call.base_prod_time, call.gap_threshold)

\* The value of player p in the final window of the result
FinalWindow(p) == ret.cols[p][Len(ret.index)]

\* C28: for every match with time-ordered actions, every window size and
\* the same pattern, base_prod_time and gap_threshold, the value in the
\* final window of tc_idle_cumulative_timeseries for each player in the
\* result is tc_idle_time for that player.
C28_FinalWindowIsIdleTime ==
  (call.op = "tc_idle_cumulative_timeseries" /\ ret.kind = "frame" /\ ~frame_empty(ret)) =>
    /\ IdleTimeOfCall.kind = "dict"
    /\ \A p \in DOMAIN ret.cols : FinalWindow(p) = IdleTimeOfCall.d[p]

\* The value in the final window never exceeds tc_idle_time
C28_FinalWindowAtMostIdleTime ==
  (call.op = "tc_idle_cumulative_timeseries" /\ ret.kind = "frame" /\ ~frame_empty(ret)) =>
    /\ IdleTimeOfCall.kind = "dict"
    /\ \A p \in DOMAIN ret.cols : FinalWindow(p) <= IdleTimeOfCall.d[p]

(***************************************************************************)
(* Claims about the important events (SpecEvents)                          *)
(***************************************************************************)
\* The timestamps of the RESEARCH and BUILD actions of player p that name
\* label
LabelTimes(p, label) ==
  { match.actions[i].timestamp :
      i \in { k \in 1..Len(match.actions) :
                /\ match.actions[k].player = p
                /\ match.actions[k].type \in {t_RESEARCH, t_BUILD}
                /\ NameOf(match.actions[k]) = label } }

\* C6: in the events important_events returns, no two have the same player
\* and label, each carries the earliest timestamp of the actions of its
\* player and label, and they are in ascending order of time; a player who
\* researches 'Feudal Age' at any number of times gets exactly one event of
\* kind 'age' for it, at the earliest of the times.
C6_EventsDeduplicated ==
  call.op = "important_events" =>
    LET rows == ret.rows
    IN /\ \A i, j \in 1..Len(rows) :
             i < j => /\ ~(rows[i].player = rows[j].player /\ rows[i].label = rows[j].label)
                      /\ rows[i].time_sec <= rows[j].time_sec
       /\ \A i \in 1..Len(rows) :
             rows[i].time_sec = SetMin(LabelTimes(rows[i].player, rows[i].label))
       /\ \A p \in 1..2 :
             LabelTimes(p, s_Feudal_Age) # {} =>
               \E i \in 1..Len(rows) :
                  /\ rows[i] = Event(SetMin(LabelTimes(p, s_Feudal_Age)), p, s_Feudal_Age, "age")
                  /\ \A j \in 1..Len(rows) :
                        (rows[j].player = p /\ rows[j].kind = "age") => j = i

\* Player 1 researches 'Feudal Age' twice, the later research coming first
\* in the list, and one event at the earlier time is returned
C6_Witness ==
  /\ call.op = "important_events"
  /\ Len(match.actions) = 2
  /\ match.actions[1] = At(Research(1, s_Feudal_Age), 3)
  /\ match.actions[2] = At(Research(1, s_Feudal_Age), 1)
  /\ ret.rows = <<Event(1, 1, s_Feudal_Age, "age")>>

(***************************************************************************)
(* Claims about the postgame totals spread over the match (SpecCumulative) *)
(***************************************************************************)
\* The call returned a series of at least n windows
CumulativeOf(n) ==
  /\ call.op = "resource_cumulative_timeseries"
  /\ ret.kind = "frame"
  /\ Len(ret.index) >= n

\* The total of player pid for the resource of the call
TotalOf(pid) == call.per_player_totals[pid][resource_index(str_lower(call.resource))]

\* The series col, of values <<numerator, denominator>>, goes from 0 to
\* total by equal steps
LinearTo(col, total) ==
  /\ col[1][1] = 0
  /\ col[Len(col)][1] = total * col[Len(col)][2]
  /\ \A j \in 1..(Len(col) - 1) :
        /\ col[j][2] = col[j + 1][2]
        /\ col[j + 1][1] - col[j][1] = col[2][1] - col[1][1]

\* C16 as stated: whenever the duration and the window size give at least
\* one window, the series of every player with a total starts at 0 in the
\* first window, ends at the total in the last window and rises by equal
\* steps.
C16_LinearFromOneWindow ==
  CumulativeOf(1) =>
    \A pid \in DOMAIN ret.cols \cap DOMAIN call.per_player_totals :
       LinearTo(ret.cols[pid], TotalOf(pid))

\* C16, for two windows and more: whenever the duration and the window size
\* give at least two windows, the series of every player with a total
\* starts at 0 in the first window, ends at the total in the last window
\* and rises by equal steps; with one window the series is the single
\* value 0.
C16_LinearFromTwoWindows ==
  /\ CumulativeOf(2) =>
       \A pid \in DOMAIN ret.cols \cap DOMAIN call.per_player_totals :
          LinearTo(ret.cols[pid], TotalOf(pid))
  /\ (CumulativeOf(1) /\ Len(ret.index) = 1) =>
       \A pid \in DOMAIN ret.cols : ret.cols[pid] = << <<0, 1>> >>

\* Four windows: the food of player 1 goes 0, 100/3, 200/3, 100
C16_Witness ==
  /\ CumulativeOf(4)
  /\ call.resource = s_food
  /\ 1 \in DOMAIN call.per_player_totals
  /\ 1 \in DOMAIN ret.cols
  /\ ret.cols[1] = << <<0, 3>>, <<100, 3>>, <<200, 3>>, <<300, 3>> >>

\* C17: a player without a postgame total (the totals mapping is empty, or
\* has no entry for the player) does not get from
\* resource_cumulative_timeseries the populated series a player with a
\* total of exactly 0 gets.
C17_NoDataIsNotZero ==
  CumulativeOf(1) =>
    \A pid \in DOMAIN ret.cols \ DOMAIN call.per_player_totals :
       ret.cols[pid] #
         resource_cumulative_timeseries(match, [p \in {pid} |-> <<0, 0, 0, 0>>],
                                        call.resource, call.window_sec).cols[pid]

(***************************************************************************)
(* Claims about payload_count (SpecCount)                                  *)
(***************************************************************************)
\* The value of count key i in the payload of the call is a positive
\* integer (an int, or a str that int() reads as one)
PositiveAt(i) ==
  LET v == dict_get(call.payload, count_keys[i])
  IN \/ v.tag = "int" /\ v.v > 0
     \/ v.tag = "str" /\ py_int(v).ok /\ py_int(v).val > 0

\* C20: payload_count returns the value of the first of the keys count,
\* amount, quantity, num, n whose value is a positive integer, and 1 when
\* no key has one; the result is an integer >= 1, and a key with a
\* non-positive or non-numeric value does not hide a later key.
C20_FirstPositiveCount ==
  call.op = "payload_count" =>
    /\ ret \in Nat
    /\ ret >= 1
    /\ \A i \in 1..Len(count_keys) :
          (PositiveAt(i) /\ \A j \in 1..(i - 1) : ~PositiveAt(j))
            => ret = py_int(dict_get(call.payload, count_keys[i])).val
    /\ (\A i \in 1..Len(count_keys) : ~PositiveAt(i)) => ret = 1

\* 'count' is 0 and 'amount' is 3: the result is 3
C20_Witness ==
  /\ call.op = "payload_count"
  /\ dict_get(call.payload, k_count) = PyInt(0)
  /\ dict_get(call.payload, k_amount) = PyInt(3)
  /\ ret = 3

(***************************************************************************)
(* Claims about the units created (SpecTally)                              *)
(***************************************************************************)
\* The sum over all the windows of the series of player p in the result of
\* the call, 0 when p has no column
SumOfWindows(p) ==
  IF ret.kind = "frame" /\ p \in DOMAIN ret.cols THEN SeqSum(ret.cols[p]) ELSE 0

TallyConserved ==
  LET tally == villager_counts(match, call.pattern)
  IN /\ tally.kind = "dict"
     /\ ret.kind = "frame"
     /\ \A p \in DOMAIN tally.d : SumOfWindows(p) = tally.d[p]

\* C27: for every match, pattern, window size and player p, the sum over
\* all the windows of unit_created_timeseries for p (0 when p has no column
\* or the result is empty) is villager_counts(match, pattern)[p]: the
\* windowing drops no matched production event and counts none twice.
C27_TallyIsSumOfWindows ==
  call.op = "unit_created_timeseries" => TallyConserved

\* The same, when a matched production event lies after time 0
C27_TallyWhenLaterThanZero ==
  (call.op = "unit_created_timeseries" /\ SetMax(ContributingTimes(call) \cup {0}) > 0)
    => TallyConserved

(***************************************************************************)
(* Claims about the resource delta of an action (SpecDelta)                *)
(***************************************************************************)
\* The unit the payload of the call names under 'unit', 'unit_name' or
\* 'object_name'
SpendUnitName ==
  py_or(dict_get(call.act.payload, k_unit),
  py_or(dict_get(call.act.payload, k_unit_name), dict_get(call.act.payload, k_object_name)))

\* The action of the call is counted as a production event of a unit by
\* villager_counts and unit_created_timeseries (for a pattern that matches
\* the unit), and the name of the unit resolves in the unit cost table
CountedProduction ==
  /\ is_prod_event(call.act.type)
  /\ \E name \in {payload_unit_name(call.act.payload), SpendUnitName} :
        /\ name.tag = "str"
        /\ payload_matches(call.act.payload, {str_lower(name.v)})
        /\ unit_cost(name.v) # NoCost

\* C24: the spend model classifies production actions as the rest of the
\* engine does, by a type name that contains TRAIN, CREATE or QUEUE or is
\* ORDER: every action counted as a production event by villager_counts
\* and unit_created_timeseries whose unit name resolves in the unit cost
\* table yields a spend delta.
C24_SpendClassifiesAsEngine ==
  (call.op = "resource_delta_for_action" /\ CountedProduction) => ret.kind = "delta"

\* The other direction: a delta of an action that is no BUILD, RESEARCH,
\* BUY or SELL is the delta of a production event
C24_SpendOnlyOfProduction ==
  (/\ call.op = "resource_delta_for_action"
   /\ ret.kind = "delta"
   /\ call.act.type \notin {t_BUILD, t_RESEARCH, t_BUY, t_SELL}) => is_prod_event(call.act.type)

\* The action of the call is a production action of the spend model whose
\* unit name resolves to a cost
CostedProduction ==
  /\ call.op = "resource_delta_for_action"
  /\ call.act.type \in unit_types
  /\ SpendUnitName.tag = "str"
  /\ unit_cost(SpendUnitName.v) # NoCost

\* The delta is the cost times the repeat count of the payload, negated
DeltaIsCostTimesCount ==
  LET cost == unit_cost(SpendUnitName.v)
      c    == payload_count(call.act.payload)
  IN /\ ret = Delta(-cost[1] * c, -cost[2] * c, -cost[3] * c, -cost[4] * c)
     /\ \A k \in 1..4 : ret.d[k] <= 0

\* C25: for a production action whose unit name resolves to the cost
\* (f, w, g, s) the delta is (-f*c, -w*c, -g*c, -s*c), c the repeat count
\* payload_count gives (the first positive integer among count, amount,
\* quantity, num, n, else 1); every component is <= 0 for every payload.
C25_DeltaIsCostTimesCount ==
  CostedProduction => DeltaIsCostTimesCount

\* The same, for the payloads whose only count key is a positive 'amount'
C25_DeltaWhenAmountOnly ==
  (/\ CostedProduction
   /\ ~has_item(call.act.payload, k_count)
   /\ has_item(call.act.payload, k_amount) =>
         LET iv == py_int(dict_get(call.act.payload, k_amount))
         IN iv.ok /\ iv.val > 0)
    => DeltaIsCostTimesCount

\* The call is a BUY or a SELL that yields a delta
MarketDelta ==
  /\ call.op = "resource_delta_for_action"
  /\ call.act.type \in {t_BUY, t_SELL}
  /\ ret.kind = "delta"

\* The resources the payload's resource string names
NamedResources ==
  LET res   == str_lower(py_str(dict_get(call.act.payload, k_resource)))
      names == <<s_food, s_wood, s_gold, s_stone>>
  IN { k \in 1..4 : str_in(names[k], res) }

\* The amount of the payload
PayloadAmount == py_int(dict_get(call.act.payload, k_amount)).val

OneSignedComponent ==
  \E k \in NamedResources :
     /\ \A j \in (1..4) \ {k} : ret.d[j] = 0
     /\ ret.d[k] # 0
     /\ ret.d[k] \in {PayloadAmount, -PayloadAmount}
     /\ call.act.type = t_BUY => ret.d[k] > 0
     /\ call.act.type = t_SELL => ret.d[k] < 0

\* C26: for a BUY or SELL action that yields a delta exactly one of the
\* four components is non-zero, the one of the resource the payload names;
\* its magnitude is the payload amount and its sign is positive for BUY and
\* negative for SELL, for every payload amount and resource string.
C26_MarketDeltaSigned ==
  MarketDelta => OneSignedComponent

\* The same, for the payloads with a positive amount
C26_MarketDeltaOfPositiveAmount ==
  (MarketDelta /\ PayloadAmount > 0) => OneSignedComponent

(***************************************************************************)
(* Claims about payload_matches (SpecMatches)                              *)
(***************************************************************************)
RECURSIVE ValuesAt(_, _)
\* The values at nesting depth d of the mapping with the given items: its
\* own values at depth 1, the values of the mappings among them at depth 2
ValuesAt(items, d) ==
  IF d = 1 THEN { items[i][2] : i \in 1..Len(items) }
  ELSE UNION { ValuesAt(items[i][2].v, d - 1) :
                 i \in { j \in 1..Len(items) : items[j][2].tag = "dict" } }

RECURSIVE KeysAt(_, _)
\* The keys of the mappings at nesting depth d - 1 (of the payload for d = 1)
KeysAt(items, d) ==
  IF d = 1 THEN { items[i][1] : i \in 1..Len(items) }
  ELSE UNION { KeysAt(items[i][2].v, d - 1) :
                 i \in { j \in 1..Len(items) : items[j][2].tag = "dict" } }

\* The string a value is: a str, or the name of a unit object
StringOf(v) ==
  IF v.tag = "str" THEN {v.v}
  ELSE IF v.tag = "obj"
  THEN { a.v : a \in { x \in {py_or(py_getattr(v, k_name), py_getattr(v, k_unit_name))} :
                         x.tag = "str" } }
  ELSE {}

StringsAt(items, d) == UNION { StringOf(v) : v \in ValuesAt(items, d) }

\* A string at one of the depths matches the pattern of the call
MatchAt(depths) ==
  \E d \in depths : \E s \in StringsAt(call.payload, d) : re_search(call.pattern, s)

\* A key at one of the depths matches the pattern of the call
KeyMatchAt(depths) ==
  \E d \in depths : \E k \in KeysAt(call.payload, d) :
     k.tag = "str" /\ re_search(call.pattern, k.v)

\* payload_unit_name gives a str that matches the pattern of the call
NameMatches ==
  LET name == payload_unit_name(call.payload)
  IN name.tag = "str" /\ re_search(call.pattern, name.v)

MatchesAsStated ==
  /\ ret <=> (NameMatches \/ MatchAt({1, 2}))
  /\ (MatchAt(3..(MaxNest + 1)) /\ ~MatchAt({1, 2})) => ~ret
  /\ (KeyMatchAt(1..(MaxNest + 1)) /\ ~MatchAt({1, 2})) => ~ret

\* C21: payload_matches is true if and only if payload_unit_name matches
\* the pattern or a string at nesting depth 1 or 2 of the payload's mapping
\* values matches it; a matching string found only deeper than depth 2
\* never makes the result true, and mapping keys are never matched.
C21_MatchesDepthBounded ==
  call.op = "payload_matches" => MatchesAsStated

\* The same, for the payloads whose unit name is absent, a str or a number
C21_MatchesWhenNameIsScalar ==
  (call.op = "payload_matches"
     /\ payload_unit_name(call.payload).tag \in {"none", "str", "int", "obj"})
    => MatchesAsStated

(***************************************************************************)
(* Claims about the sync stream (SpecSync, SpecSyncFair)                   *)
(***************************************************************************)
\* The call of sync_total_resources_timeseries on a file that opened has
\* ended, with a result or an exception
SyncEnded ==
  /\ call.op = "sync_total_resources_timeseries"
  /\ stream.file = "ok"
  /\ scan.pc \in {"done", "raised"}

\* The items of a SYNC payload other than current_time
PlayerItems(pl) == SelectSeq(pl, LAMBDA item : item[1] # PyStr(k_current_time))

\* A SYNC record of the expected shape: a triple whose third element is a
\* dict with an integer current_time and, under integer player keys, dicts
\* with a numeric total_res
WellFormed(rec) ==
  /\ rec.kind = "op"
  /\ rec.type = "SYNC"
  /\ rec.payload.tag = "tuple"
  /\ Len(rec.payload.v) = 3
  /\ rec.payload.v[3].tag = "dict"
  /\ dict_get(rec.payload.v[3].v, k_current_time).tag = "int"
  /\ \A i \in 1..Len(PlayerItems(rec.payload.v[3].v)) :
        LET item == PlayerItems(rec.payload.v[3].v)[i]
        IN /\ item[1].tag = "int"
           /\ item[2].tag = "dict"
           /\ dict_get(item[2].v, k_total_res).tag = "int"

\* The observations <<pid, time, total>> of a well-formed SYNC record
Observations(rec) ==
  LET pl == rec.payload.v[3].v
  IN { <<PlayerItems(pl)[i][1].v, dict_get(pl, k_current_time).v,
         dict_get(PlayerItems(pl)[i][2].v, k_total_res).v>> : i \in 1..Len(PlayerItems(pl)) }

\* The observation o is among the pairs the scan collected
Collected(o) ==
  /\ o[1] \in DOMAIN scan.per_pid
  /\ \E k \in 1..Len(scan.per_pid[o[1]]) : scan.per_pid[o[1]][k] = <<o[2], o[3]>>

\* C12: whatever malformed records the body holds (reads that raise,
\* records that are not SYNC, SYNC payloads that are not a triple, are
\* opaque, lack current_time, have a key that is no player number or a
\* player value that is no dict), the scan of sync_total_resources_timeseries
\* ends without an exception and has collected the observations of every
\* well-formed SYNC record of the body.
C12_MalformedRecordsSkipped ==
  SyncEnded =>
    /\ scan.pc = "done"
    /\ \A i \in 1..Len(stream.records) :
          WellFormed(stream.records[i]) =>
            \A o \in Observations(stream.records[i]) : Collected(o)

\* A SYNC record whose payload is not a triple
NotATriple(rec) ==
  rec.kind = "op" /\ rec.type = "SYNC" /\ ~(rec.payload.tag = "tuple" /\ Len(rec.payload.v) = 3)

\* The same, on the bodies in which every SYNC payload is a triple
C12_SkippedWhenTriples ==
  (\A i \in 1..Len(stream.records) : ~NotATriple(stream.records[i]))
    => C12_MalformedRecordsSkipped

\* A file that cannot be opened makes sync_total_resources_timeseries raise
\* the I/O error
C14_SyncOpenErrorRaised ==
  (call.op = "sync_total_resources_timeseries" /\ stream.file = "ioerror")
    => ret = Raise("OSError", "open")

\* A read of the body that fails with an I/O error makes
\* sync_total_resources_timeseries raise it
C14_SyncReadErrorRaised ==
  (SyncEnded /\ \E i \in 1..Len(stream.records) : stream.records[i] = ReaderError("OSError"))
    => (ret.kind = "error" /\ ret.exc = "OSError")

\* The pairs the scan collected for player pid whose time is at most b
\* milliseconds, as positions of scan.per_pid[pid]
SeenBy(pid, b) == {i \in 1..Len(scan.per_pid[pid]) : scan.per_pid[pid][i][1] <= b}

\* The total of the latest of the observations at the positions S of
\* player pid: the last collected of those with the largest time
LatestTotal(pid, S) ==
  LET obs   == scan.per_pid[pid]
      tmax  == SetMax({obs[i][1] : i \in S})
  IN obs[SetMax({i \in S : obs[i][1] = tmax})][2]

\* The values a window before the first observation of pid may be filled
\* back from: the player's earliest observations, or the sample at the
\* first window edge that has one
BackFillTotals(pid, w) ==
  LET obs   == scan.per_pid[pid]
      tmin  == SetMin({obs[i][1] : i \in 1..Len(obs)})
      edge  == CeilDiv(tmin, MsPerSec * w) * MsPerSec * w
  IN {obs[i][2] : i \in {k \in 1..Len(obs) : obs[k][1] = tmin}}
       \cup {LatestTotal(pid, SeenBy(pid, edge))}

\* The scan reached the end of the stream with observations
Resampled == SyncEnded /\ scan.pc = "done" /\ DOMAIN scan.per_pid # {}

\* The result is a series whose samples are the forward-filled totals
SamplesForwardFilled ==
  /\ ret.kind = "frame"
  /\ DOMAIN ret.cols = DOMAIN scan.per_pid
  /\ \A pid \in DOMAIN scan.per_pid :
        \A j \in 1..Len(ret.index) :
           LET b == ret.index[j] * MsPerSec
           IN IF SeenBy(pid, b) # {}
              THEN ret.cols[pid][j] = LatestTotal(pid, SeenBy(pid, b))
              ELSE ret.cols[pid][j] \in BackFillTotals(pid, call.window_sec)

\* C19: for every player with an observation, the sample of
\* sync_total_resources_timeseries at each window start b is the total of
\* the player's latest observation with time <= b, and at the windows
\* before the player's first observation a value filled back from the
\* player's earliest values, whatever the SYNC records are, several
\* records of the same current_time included.
C19_ForwardFilledSamples == Resampled => SamplesForwardFilled

\* The same, on the streams in which no player has two observations of
\* the same time
C19_ForwardFilledWhenTimesDiffer ==
  (Resampled /\ \A pid \in DOMAIN scan.per_pid : ~has_duplicates(scan.per_pid[pid]))
    => SamplesForwardFilled

\* Once the record loop runs it is left
C13_LoopIsLeft == (scan.pc = "loop") ~> (scan.pc # "loop")

\* The record loop is left only by the break at the end of the stream
C13_LeftOnlyAtEndOfStream ==
  [][(scan.pc = "loop" /\ scan'.pc # "loop")
       => (scan.pos > Len(stream.records) /\ scan'.pc = "break")]_vars

\* C13: the record loop of sync_total_resources_timeseries terminates on
\* every finite stream, malformed records included, and only when the end
\* of the stream is signalled.
C13_TerminatesOnlyAtEndOfStream == C13_LoopIsLeft /\ C13_LeftOnlyAtEndOfStream


====
